---- MODULE Spec2Model ----
(***************************************************************************)
(* Visual control system: the DetectionEngine (drawing-mode engine v2.0    *)
(* and the legacy engine v1.0), its reference store, drift comparator and  *)
(* detection history.                                                      *)
(*                                                                         *)
(* Units.  Rectangles and bounding boxes are in pixels.  Centres are kept  *)
(* in half pixels (x + width/2 becomes 2x + width), rotations in tenths of *)
(* a degree, confidences in tenths of a percentage point, so that the      *)
(* code's floating point comparisons and Math.round are computed exactly   *)
(* on integers.  sqrt only occurs under a comparison or a rounding, which  *)
(* are decided on the squared distance; the confidence penalty sqrt(q)/5   *)
(* is kept to a tenth (truncated).                                         *)
(***************************************************************************)
EXTENDS Integers, Sequences, FiniteSets, TLC

VARIABLES
    variant,            \* which DetectionEngine module is loaded: "v2" or "v1"
    referenceImage,     \* this.referenceImage
    referenceFeatures,  \* this.referenceFeatures
    boxRect,            \* this.boxRect (v2)
    keyPointRect,       \* this.keyPointRect (v2)
    settings,           \* this.settings
    isInitialized,      \* this.isInitialized
    lastDetection,      \* this.lastDetection
    detectionHistory,   \* this.detectionHistory
    now,                \* Date.now()
    call,               \* the last public call: its arguments and the engine state it met
    ret,                \* what the last analyzeFrame call returned
    appended,           \* history entries pushed since the last reset/clear
    app                 \* the VisualControlApp around the engine: its state,
                        \* drawing, stats, buttons and pending timers

vars == <<variant, referenceImage, referenceFeatures, boxRect, keyPointRect,
          settings, isInitialized, lastDetection, detectionHistory, now,
          call, ret, appended, app>>

engineVars == <<referenceImage, referenceFeatures, boxRect, keyPointRect,
                settings, isInitialized, lastDetection, detectionHistory>>

----------------------------------------------------------------------------
(* Bounds of the model *)

MaxTime == 2        \* analyzeFrame calls explored in the engine specification
MaxAppends == 130   \* addToHistory calls explored in the history specification

(* Program constants *)

HistoryCapacity == 100

----------------------------------------------------------------------------
(* Values *)

NULL == [null |-> TRUE]

Max(a, b) == IF a >= b THEN a ELSE b
Min(a, b) == IF a <= b THEN a ELSE b
Abs(a) == IF a >= 0 THEN a ELSE -a

\* floor(sqrt(n)) for n >= 0, by bisection of lo..hi
RECURSIVE ISqrtIn(_, _, _)
ISqrtIn(n, lo, hi) ==
    IF lo >= hi THEN lo
    ELSE LET mid == (lo + hi + 1) \div 2
         IN  IF mid <= n \div mid THEN ISqrtIn(n, mid, hi)
                                 ELSE ISqrtIn(n, lo, mid - 1)

ISqrt(n) == ISqrtIn(n, 0, n)

\* Math.round(sqrt(q4) / 2): the integer r with r - 1/2 <= sqrt(q4)/2 < r + 1/2
RoundHalfSqrt(q4) == (ISqrt(q4) + 1) \div 2

\* Math.round(t / 10) for t >= 0 in tenths (round half up)
RoundTenths(t) == (t + 5) \div 10

Rect(x, y, w, h) == [x |-> x, y |-> y, width |-> w, height |-> h]

\* percentage points as tenths
Pct(n) == n * 10

Msg(tag, n) == <<tag, n>>

----------------------------------------------------------------------------
(* Inputs: rectangles, reference images, settings arguments *)

\* Rectangles the operator draws (drawing canvas coordinates).
BoxRects == { Rect(20, 20, 300, 300) }
KeyPointRects == { Rect(50, 50, 200, 200) }

\* Reference images handed to setReferenceImage (width and height of the
\* captured frame); setReferenceAreas is given its default imageData = null.
Images == { [width |-> 200, height |-> 200] }

\* The settings object of the constructor.
DefaultSettings ==
    [rotationSensitivity |-> 5, positionSensitivity |-> 20,
     detectionThreshold |-> 50, minContourArea |-> 1000,
     maxContourArea |-> 500000]

\* Partial settings objects passed to updateSettings and analyzeFrame;
\* << >> is the empty object {}.
SettingsArgs ==
    { << >>,
      [positionSensitivity |-> 60],
      [rotationSensitivity |-> 10] }

\* { ...old, ...new }
Spread(old, new) ==
    [k \in (DOMAIN old) \cup (DOMAIN new) |->
        IF k \in DOMAIN new THEN new[k] ELSE old[k]]

----------------------------------------------------------------------------
(* Inputs: frames.                                                         *)
(* A frame is described by what the engine reads of it: whether the        *)
(* argument is null, whether it carries imageData, whether the pixel       *)
(* buffer can be processed, and the contours findContours traces in it.    *)
(* A contour is described by what the engine computes of its point list:   *)
(* the number of points n, the shoelace area, the bounding box and the     *)
(* rotation (tenths of a degree).                                          *)

Contour(n, area, bbox, rot) ==
    [n |-> n, area |-> area, boundingBox |-> bbox, rotation |-> rot]

CentredNear == Contour(40, 5000, Rect(55, 52, 100, 100), 10)    \* centre (105,102), 1.0 deg
Shifted50   == Contour(40, 5000, Rect(100, 50, 100, 100), 0)    \* centre (150,100), 0 deg
JustOver    == Contour(40, 5000, Rect(70, 53, 100, 100), 54)    \* centre (120,103), 5.4 deg
Tilted90    == Contour(40, 5000, Rect(50, 50, 100, 100), -900)  \* centre (100,100), -90 deg
Speck       == Contour(21, 300, Rect(90, 90, 20, 20), 450)      \* too small to be a box

\* The size of a captured frame (videoWidth x videoHeight); captureFrame
\* reads imageData from the canvas it sized, so both sizes agree.
FrameWidth == 640
FrameHeight == 480

NullFrame ==
    [isNull |-> TRUE, hasImageData |-> FALSE, pixelsOk |-> FALSE,
     contours |-> << >>, width |-> 0, height |-> 0,
     imageWidth |-> 0, imageHeight |-> 0]

Frame(hasImageData, pixelsOk, contours) ==
    [isNull |-> FALSE, hasImageData |-> hasImageData, pixelsOk |-> pixelsOk,
     contours |-> contours, width |-> FrameWidth, height |-> FrameHeight,
     imageWidth |-> FrameWidth, imageHeight |-> FrameHeight]

\* a frame captured at another video size
Sized(frame, w, h) ==
    [frame EXCEPT !.width = w, !.height = h,
                  !.imageWidth = w, !.imageHeight = h]

Frames ==
    { NullFrame,
      Frame(FALSE, FALSE, << >>),        \* no imageData
      Frame(TRUE, FALSE, << >>),         \* a pixel buffer the pipeline fails on
      Frame(TRUE, TRUE, << >>),          \* no strong edges
      Frame(TRUE, TRUE, <<CentredNear>>),
      Frame(TRUE, TRUE, <<Shifted50>>),
      Frame(TRUE, TRUE, <<JustOver>>),
      Frame(TRUE, TRUE, <<Tilted90>>),
      Frame(TRUE, TRUE, <<Speck, Shifted50>>),
      Frame(TRUE, TRUE, <<CentredNear, Shifted50>>) }

\* The draws of Math.random() in compareWithReference: shouldAlert is
\* Math.random() < 0.05, offset is Math.floor(Math.random() * 50 + 20).
\* The offset is only drawn when shouldAlert holds.
NoDraw == [shouldAlert |-> FALSE, offset |-> 0]
RandomDraws == {NoDraw} \cup [shouldAlert : {TRUE}, offset : {20, 69}]

----------------------------------------------------------------------------
(* The feature pipeline, on the description of a frame *)

\* scaledRect of extractROI without the truncation of width and height
ScaledRectUntruncated(frame, rect) ==
    [x |-> Max(0, Min((rect.x * frame.width) \div frame.imageWidth,
                      frame.width - 1)),
     y |-> Max(0, Min((rect.y * frame.height) \div frame.imageHeight,
                      frame.height - 1)),
     width |-> (rect.width * frame.width) \div frame.imageWidth,
     height |-> (rect.height * frame.height) \div frame.imageHeight]

\* scaledRect of extractROI: the rectangle scaled by
\* frameData.width / imageData.width (Math.floor is \div), x and y clamped
\* to [0, width - 1] and [0, height - 1], width and height cut at the edge
ScaledRect(frame, rect) ==
    LET x == Max(0, Min((rect.x * frame.width) \div frame.imageWidth,
                        frame.width - 1))
        y == Max(0, Min((rect.y * frame.height) \div frame.imageHeight,
                        frame.height - 1))
    IN  [x |-> x, y |-> y,
         width |-> Min((rect.width * frame.width) \div frame.imageWidth,
                       frame.width - x),
         height |-> Min((rect.height * frame.height) \div frame.imageHeight,
                        frame.height - y)]

\* extractROI handing on a region of any size
ExtractROIAnySize(frame, rect) ==
    IF ~frame.hasImageData
    THEN NULL
    ELSE [pixelsOk |-> frame.pixelsOk, contours |-> frame.contours,
          width |-> ScaledRect(frame, rect).width,
          height |-> ScaledRect(frame, rect).height,
          originalRect |-> ScaledRect(frame, rect)]

\* extractROI: null when the frame has no imageData; null when the region
\* is empty (getImageData throws IndexSizeError for a zero width or height,
\* which the catch answers with null); else the cropped region.
ExtractROI(frame, rect) ==
    IF ~frame.hasImageData
    THEN NULL
    ELSE LET r == ScaledRect(frame, rect)
         IN  IF r.width <= 0 \/ r.height <= 0
             THEN NULL
             ELSE [pixelsOk |-> frame.pixelsOk, contours |-> frame.contours,
                   width |-> r.width, height |-> r.height,
                   originalRect |-> r]

\* index of the contour analyzeContours keeps: the first one of greatest area
LargestContour(contours) ==
    CHOOSE i \in 1..Len(contours) :
        /\ \A j \in 1..Len(contours) : contours[j].area <= contours[i].area
        /\ \A j \in 1..(i - 1) : contours[j].area < contours[i].area

\* analyzeContours: the features of the largest contour (s: this.settings)
AnalyzeContours(contours, s) ==
    IF Len(contours) = 0
    THEN [hasBox |-> FALSE, rotation |-> 0, position |-> [x |-> 0, y |-> 0],
          confidence |-> 0]
    ELSE LET c == contours[LargestContour(contours)]
             bb == c.boundingBox
         IN  [hasBox |-> c.area > s.minContourArea,
              rotation |-> c.rotation,
              position |-> [x |-> 2 * bb.x + bb.width, y |-> 2 * bb.y + bb.height],
              boundingBox |-> bb,
              area |-> c.area,
              confidence |-> Min(Pct(100), c.area \div 100)]

\* analyzeROI: grayscale, edges, contours, features; any exception of a
\* stage is caught and answered with features: null.
AnalyzeROI(roi, s) ==
    IF ~roi.pixelsOk
    THEN [contours |-> 0, features |-> NULL]
    ELSE [contours |-> Len(roi.contours),
          features |-> AnalyzeContours(roi.contours, s)]

\* contoursToBoxes (legacy): bounding boxes whose area passes the filter
RECURSIVE ContoursToBoxes(_, _)
ContoursToBoxes(contours, s) ==
    IF Len(contours) = 0 THEN << >>
    ELSE LET c == Head(contours)
             bb == c.boundingBox
             area == bb.width * bb.height
             rest == ContoursToBoxes(Tail(contours), s)
         IN  IF c.n < 4 \/ area < s.minContourArea \/ area > s.maxContourArea
             THEN rest
             ELSE <<[x |-> bb.x, y |-> bb.y, width |-> bb.width,
                     height |-> bb.height,
                     centerX |-> 2 * bb.x + bb.width,
                     centerY |-> 2 * bb.y + bb.height,
                     rotation |-> c.rotation, area |-> area]>> \o rest

\* detectBoxes (legacy): any exception of a stage is caught and answered []
DetectBoxes(frame, s) ==
    IF ~frame.hasImageData \/ ~frame.pixelsOk
    THEN << >>
    ELSE ContoursToBoxes(frame.contours, s)

\* squared distance (half pixels) of a box centre to the reference image centre
CentreDist2(box, image) ==
    (box.centerX - image.width) * (box.centerX - image.width)
    + (box.centerY - image.height) * (box.centerY - image.height)

\* findBestMatch of v1 reads this.referenceImage.width with no null check:
\* a TypeError when several boxes are found and referenceImage is null
FindBestMatchThrows(boxes) ==
    variant = "v1" /\ Len(boxes) > 1 /\ referenceImage = NULL

\* findBestMatch (legacy): the first box closest to the image centre
FindBestMatch(boxes) ==
    IF Len(boxes) = 1 THEN boxes[1]
    ELSE IF referenceImage = NULL THEN boxes[1]
    ELSE boxes[CHOOSE i \in 1..Len(boxes) :
            /\ \A j \in 1..Len(boxes) :
                  CentreDist2(boxes[i], referenceImage) <= CentreDist2(boxes[j], referenceImage)
            /\ \A j \in 1..(i - 1) :
                  CentreDist2(boxes[i], referenceImage) < CentreDist2(boxes[j], referenceImage)]

----------------------------------------------------------------------------
(* The drift comparator *)

NoDetails ==
    [positionOffset |-> 0, rotationOffset |-> 0,
     positionOk |-> TRUE, rotationOk |-> TRUE]

\* the issues pushed for an alert, joined into the message
Issues(details) ==
    (IF ~details.positionOk
        THEN <<Msg("positionShiftPx", details.positionOffset)>> ELSE << >>)
    \o (IF ~details.rotationOk
        THEN <<Msg("tiltDeg", details.rotationOffset)>> ELSE << >>)

\* Compare without the wrap-around of the rotation difference
CompareNoWrap(q4, d, box, s) ==
    LET normalizedRotation == d
        positionOk == q4 <= 4 * s.positionSensitivity * s.positionSensitivity
        rotationOk == normalizedRotation <= 10 * s.rotationSensitivity
        details == [positionOffset |-> RoundHalfSqrt(q4),
                    rotationOffset |-> RoundTenths(normalizedRotation),
                    positionOk |-> positionOk,
                    rotationOk |-> rotationOk]
    IN  IF ~positionOk \/ ~rotationOk
        THEN [hasAlert |-> TRUE,
              message |-> Issues(details),
              box |-> box,
              confidence |-> Max(0, Pct(100) - ISqrt(q4) - 2 * normalizedRotation),
              details |-> details]
        ELSE [hasAlert |-> FALSE,
              message |-> <<Msg("inCorrectPosition", 0)>>,
              box |-> box,
              confidence |-> Pct(100),
              details |-> details]

\* Compare alerting on the position alone
ComparePositionOnly(q4, d, box, s) ==
    LET normalizedRotation == Min(d, 3600 - d)
        positionOk == q4 <= 4 * s.positionSensitivity * s.positionSensitivity
        rotationOk == normalizedRotation <= 10 * s.rotationSensitivity
        details == [positionOffset |-> RoundHalfSqrt(q4),
                    rotationOffset |-> RoundTenths(normalizedRotation),
                    positionOk |-> positionOk,
                    rotationOk |-> rotationOk]
    IN  IF ~positionOk
        THEN [hasAlert |-> TRUE,
              message |-> Issues(details),
              box |-> box,
              confidence |-> Max(0, Pct(100) - ISqrt(q4) - 2 * normalizedRotation),
              details |-> details]
        ELSE [hasAlert |-> FALSE,
              message |-> <<Msg("inCorrectPosition", 0)>>,
              box |-> box,
              confidence |-> Pct(100),
              details |-> details]

\* The comparison both engines share once the centres are known.
\*   q4: squared distance of the centres, in half pixels
\*   d : |observed rotation - reference rotation|, in tenths of a degree
\*   s : this.settings
Compare(q4, d, box, s) ==
    LET normalizedRotation == Min(d, 3600 - d)
        positionOk == q4 <= 4 * s.positionSensitivity * s.positionSensitivity
        rotationOk == normalizedRotation <= 10 * s.rotationSensitivity
        details == [positionOffset |-> RoundHalfSqrt(q4),
                    rotationOffset |-> RoundTenths(normalizedRotation),
                    positionOk |-> positionOk,
                    rotationOk |-> rotationOk]
    IN  IF ~positionOk \/ ~rotationOk
        THEN [hasAlert |-> TRUE,
              message |-> Issues(details),
              box |-> box,
              confidence |-> Max(0, Pct(100) - ISqrt(q4) - 2 * normalizedRotation),
              details |-> details]
        ELSE [hasAlert |-> FALSE,
              message |-> <<Msg("inCorrectPosition", 0)>>,
              box |-> box,
              confidence |-> Pct(100),
              details |-> details]

\* compareWithReference (v2) measuring from the centre stored in the
\* reference features (canvas coordinates) instead of the ROI centre
CompareWithReferenceV2Canvas(features, s, rnd) ==
    IF referenceFeatures = NULL
    THEN [hasAlert |-> FALSE, message |-> <<Msg("noReferenceData", 0)>>,
          box |-> keyPointRect, confidence |-> 0, details |-> NoDetails]
    ELSE IF features = NULL \/ ~features.hasBox
    THEN IF rnd.shouldAlert
         THEN [hasAlert |-> TRUE, message |-> <<Msg("boxNotFound", 0)>>,
               box |-> keyPointRect, confidence |-> Pct(30),
               details |-> [NoDetails EXCEPT !.positionOk = FALSE,
                                             !.positionOffset = rnd.offset]]
         ELSE [hasAlert |-> FALSE, message |-> <<Msg("inCorrectPosition", 0)>>,
               box |-> keyPointRect, confidence |-> Pct(100),
               details |-> NoDetails]
    ELSE LET dx == features.position.x - referenceFeatures.centerX
             dy == features.position.y - referenceFeatures.centerY
             expectedRotation == referenceFeatures.rotation
         IN  Compare(dx * dx + dy * dy,
                     Abs(features.rotation - expectedRotation),
                     keyPointRect, s)

\* compareWithReference of the drawing-mode engine (v2).  features is
\* analysis.features (NULL when absent), s is this.settings, rnd the
\* values Math.random() yields.
CompareWithReferenceV2(features, s, rnd) ==
    IF referenceFeatures = NULL
    THEN [hasAlert |-> FALSE, message |-> <<Msg("noReferenceData", 0)>>,
          box |-> keyPointRect, confidence |-> 0, details |-> NoDetails]
    ELSE IF features = NULL \/ ~features.hasBox
    THEN IF rnd.shouldAlert
         THEN [hasAlert |-> TRUE, message |-> <<Msg("boxNotFound", 0)>>,
               box |-> keyPointRect, confidence |-> Pct(30),
               details |-> [NoDetails EXCEPT !.positionOk = FALSE,
                                             !.positionOffset = rnd.offset]]
         ELSE [hasAlert |-> FALSE, message |-> <<Msg("inCorrectPosition", 0)>>,
               box |-> keyPointRect, confidence |-> Pct(100),
               details |-> NoDetails]
    ELSE LET dx == features.position.x - keyPointRect.width
             dy == features.position.y - keyPointRect.height
             expectedRotation == referenceFeatures.rotation
         IN  Compare(dx * dx + dy * dy,
                     Abs(features.rotation - expectedRotation),
                     keyPointRect, s)

\* compareWithReference of the legacy engine (v1), on the best matching box
CompareWithReferenceV1(box, s) ==
    IF referenceFeatures = NULL
    THEN [hasAlert |-> FALSE, message |-> <<Msg("noReferenceData", 0)>>,
          box |-> box, confidence |-> 0]
    ELSE LET dx == box.centerX - referenceFeatures.centerX
             dy == box.centerY - referenceFeatures.centerY
         IN  Compare(dx * dx + dy * dy,
                     Abs(box.rotation - referenceFeatures.rotation),
                     box, s)

----------------------------------------------------------------------------
(* The reference store *)

\* extractFeaturesFromAreas (v2); centres in half pixels.  The timestamp
\* field (Date.now()) is left out: nothing reads it.
ExtractFeaturesFromAreas(b, k, image) ==
    LET features == [boxRect |-> b, keyPointRect |-> k,
                     centerX |-> 2 * k.x + k.width,
                     centerY |-> 2 * k.y + k.height,
                     rotation |-> 0,
                     area |-> k.width * k.height,
                     mode |-> "drawing"]
    IN  IF image = NULL THEN features
        ELSE Spread(features, [imageWidth |-> image.width,
                               imageHeight |-> image.height])

\* extractFeatures (legacy); centres in half pixels, area is
\* width * height * 0.25; v2 adds mode: 'legacy'
ExtractFeatures(image) ==
    LET features == [width |-> image.width, height |-> image.height,
                     centerX |-> image.width, centerY |-> image.height,
                     rotation |-> 0,
                     area |-> (image.width * image.height) \div 4]
    IN  IF variant = "v2" THEN Spread(features, [mode |-> "legacy"])
        ELSE features

----------------------------------------------------------------------------
(* The detection history *)

\* addToHistory with pop() for shift(): the newest entry is evicted
AddToHistoryPop(history, result) ==
    LET pushed == Append(history, Spread(result, [timestamp |-> now]))
    IN  IF Len(pushed) > HistoryCapacity
        THEN SubSeq(pushed, 1, Len(pushed) - 1)
        ELSE pushed

\* addToHistory: push { ...result, timestamp }, then shift past the capacity
AddToHistory(history, result) ==
    LET pushed == Append(history, Spread(result, [timestamp |-> now]))
    IN  IF Len(pushed) > HistoryCapacity THEN Tail(pushed) ELSE pushed

----------------------------------------------------------------------------
(* analyzeFrame *)

NoReferenceResult ==
    [hasAlert |-> FALSE, message |-> <<Msg("noReferenceImage", 0)>>,
     box |-> NULL, confidence |-> 0]

RoiFailedResult ==
    [hasAlert |-> FALSE, message |-> <<Msg("cannotExtractArea", 0)>>,
     box |-> keyPointRect, confidence |-> 0]

NoBoxResult ==
    [hasAlert |-> FALSE, message |-> <<Msg("noBoxFound", 0)>>,
     box |-> NULL, confidence |-> 0]

CaughtResult ==
    [hasAlert |-> TRUE, message |-> <<Msg("analysisError", 0)>>,
     box |-> NULL, confidence |-> 0]

\* What compareWithReference was handed: the features of the drawing-mode
\* analysis, or the best matching box of the legacy engine (centre in half
\* pixels, rotation in tenths of a degree); NULL when it was handed none.
ObservedFeatures(features) ==
    IF features = NULL THEN NULL
    ELSE [hasBox |-> features.hasBox, x |-> features.position.x,
          y |-> features.position.y, rotation |-> features.rotation]

ObservedBox(box) ==
    [hasBox |-> TRUE, x |-> box.centerX, y |-> box.centerY,
     rotation |-> box.rotation]

\* the outcome of one analyzeFrame call: the path taken, the result
\* returned, whether it was stored, and what the comparator was handed
Outcome(path, result, recorded, observed) ==
    [path |-> path, result |-> result, recorded |-> recorded,
     observed |-> observed]

\* analyzeWithDrawingAreas returning the comparison without storing it
AnalyzeWithDrawingAreasUnstored(frame, s, rnd) ==
    LET roiData == ExtractROI(frame, keyPointRect)
    IN  IF roiData = NULL
        THEN Outcome("roiFailed", RoiFailedResult, FALSE, NULL)
        ELSE LET analysis == AnalyzeROI(roiData, s)
             IN  Outcome("compared",
                         CompareWithReferenceV2(analysis.features, s, rnd), FALSE,
                         ObservedFeatures(analysis.features))

\* analyzeWithDrawingAreas (v2, keyPointRect set)
AnalyzeWithDrawingAreas(frame, s, rnd) ==
    LET roiData == ExtractROI(frame, keyPointRect)
    IN  IF roiData = NULL
        THEN Outcome("roiFailed", RoiFailedResult, FALSE, NULL)
        ELSE LET analysis == AnalyzeROI(roiData, s)
             IN  Outcome("compared",
                         CompareWithReferenceV2(analysis.features, s, rnd), TRUE,
                         ObservedFeatures(analysis.features))

\* analyzeLegacyMode (v2, no keyPointRect) and the body of analyzeFrame (v1).
\* In v2 the best box is handed to compareWithReference, which reads its
\* .features: a box has none.
AnalyzeLegacyMode(frame, s, rnd) ==
    LET detectedBoxes == DetectBoxes(frame, s)
    IN  IF Len(detectedBoxes) = 0
        THEN Outcome("noBox", NoBoxResult, FALSE, NULL)
        ELSE IF FindBestMatchThrows(detectedBoxes)
        THEN Outcome("caught", CaughtResult, FALSE, NULL)
        ELSE IF variant = "v2"
        THEN Outcome("compared", CompareWithReferenceV2(NULL, s, rnd), TRUE, NULL)
        ELSE Outcome("compared",
                     CompareWithReferenceV1(FindBestMatch(detectedBoxes), s), TRUE,
                     ObservedBox(FindBestMatch(detectedBoxes)))

\* the try block of analyzeFrame, with s the settings after updateSettings
AnalyzeTry(frame, s, rnd) ==
    IF variant = "v2" /\ keyPointRect # NULL
    THEN AnalyzeWithDrawingAreas(frame, s, rnd)
    ELSE AnalyzeLegacyMode(frame, s, rnd)

\* the guard of analyzeFrame without the isInitialized test
AnalyzeEarlyReturnFrameOnly(frame) == frame.isNull

\* the guard of analyzeFrame: !this.isInitialized || !frameData
AnalyzeEarlyReturn(frame) == ~isInitialized \/ frame.isNull

\* Math.random() is called on one branch of compareWithReference (v2)
\* only, when analysis.features is absent or has no box: the draws are
\* enumerated for the calls that reach it.
ReachesRandom(frame, s) ==
    /\ ~AnalyzeEarlyReturn(frame)
    /\ variant = "v2"
    /\ referenceFeatures # NULL
    /\ IF keyPointRect # NULL
       THEN /\ ExtractROI(frame, keyPointRect) # NULL
            /\ \/ ~frame.pixelsOk
               \/ ~AnalyzeContours(frame.contours, s).hasBox
       ELSE Len(DetectBoxes(frame, s)) > 0

DrawsFor(frame, p) ==
    IF ReachesRandom(frame, Spread(settings, p)) THEN RandomDraws ELSE {NoDraw}

AnalyzeFrame(frame, p, rnd) ==
    /\ now < MaxTime
    /\ now' = now + 1
    /\ IF AnalyzeEarlyReturn(frame)
       THEN /\ ret' = NoReferenceResult
            /\ call' = [op |-> "analyzeFrame", frame |-> frame,
                        path |-> "noReference", observed |-> NULL]
            /\ UNCHANGED <<settings, detectionHistory, lastDetection, appended>>
       ELSE LET s == Spread(settings, p)
                out == AnalyzeTry(frame, s, rnd)
            IN  /\ settings' = s
                /\ ret' = out.result
                /\ call' = [op |-> "analyzeFrame", frame |-> frame,
                            path |-> out.path, observed |-> out.observed]
                /\ IF out.recorded
                   THEN /\ detectionHistory' = AddToHistory(detectionHistory, out.result)
                        /\ lastDetection' = out.result
                        /\ appended' = Append(appended,
                                Spread(out.result, [timestamp |-> now]))
                   ELSE UNCHANGED <<detectionHistory, lastDetection, appended>>
    /\ UNCHANGED <<variant, referenceImage, referenceFeatures, boxRect,
                   keyPointRect, isInitialized>>

----------------------------------------------------------------------------
(* The other public operations *)

Called(op) == /\ call' = [op |-> op]
              /\ ret' = NULL

\* setReferenceAreas that starts a fresh history with the new reference
SetReferenceAreasFresh(b, k, image) ==
    /\ variant = "v2"
    /\ boxRect' = b
    /\ keyPointRect' = k
    /\ referenceImage' = image
    /\ IF k = NULL
       THEN UNCHANGED <<referenceFeatures, isInitialized>>
       ELSE /\ referenceFeatures' = ExtractFeaturesFromAreas(b, k, image)
            /\ isInitialized' = TRUE
    /\ detectionHistory' = << >>
    /\ lastDetection' = NULL
    /\ appended' = << >>
    /\ Called("setReferenceAreas")
    /\ UNCHANGED <<variant, settings, now>>

\* setReferenceAreas (v2): the assignments before extractFeaturesFromAreas
\* stay when it throws on a null keyPointRect (the catch only reports)
SetReferenceAreas(b, k, image) ==
    /\ variant = "v2"
    /\ boxRect' = b
    /\ keyPointRect' = k
    /\ referenceImage' = image
    /\ IF k = NULL
       THEN UNCHANGED <<referenceFeatures, isInitialized>>
       ELSE /\ referenceFeatures' = ExtractFeaturesFromAreas(b, k, image)
            /\ isInitialized' = TRUE
    /\ Called("setReferenceAreas")
    /\ UNCHANGED <<variant, settings, lastDetection, detectionHistory, now, appended>>

\* setReferenceImage: referenceImage is assigned before extractFeatures
\* throws on null (the catch only reports)
SetReferenceImage(image) ==
    /\ referenceImage' = image
    /\ IF image = NULL
       THEN UNCHANGED <<referenceFeatures, isInitialized>>
       ELSE /\ referenceFeatures' = ExtractFeatures(image)
            /\ isInitialized' = TRUE
    /\ Called("setReferenceImage")
    /\ UNCHANGED <<variant, boxRect, keyPointRect, settings, lastDetection,
                   detectionHistory, now, appended>>

ClearReference ==
    /\ referenceImage' = NULL
    /\ referenceFeatures' = NULL
    /\ boxRect' = NULL
    /\ keyPointRect' = NULL
    /\ isInitialized' = FALSE
    /\ lastDetection' = NULL
    /\ detectionHistory' = << >>
    /\ appended' = << >>
    /\ Called("clearReference")
    /\ UNCHANGED <<variant, settings, now>>

\* resetHistory that also drops the reference
ResetHistoryAndReference ==
    /\ detectionHistory' = << >>
    /\ lastDetection' = NULL
    /\ appended' = << >>
    /\ referenceFeatures' = NULL
    /\ isInitialized' = FALSE
    /\ Called("resetHistory")
    /\ UNCHANGED <<variant, referenceImage, boxRect, keyPointRect, settings, now>>

ResetHistory ==
    /\ detectionHistory' = << >>
    /\ lastDetection' = NULL
    /\ appended' = << >>
    /\ Called("resetHistory")
    /\ UNCHANGED <<variant, referenceImage, referenceFeatures, boxRect,
                   keyPointRect, settings, isInitialized, now>>

\* updateSettings that merges into the defaults of the constructor
UpdateSettingsFromDefaults(p) ==
    /\ settings' = Spread(DefaultSettings, p)
    /\ Called("updateSettings")
    /\ UNCHANGED <<variant, referenceImage, referenceFeatures, boxRect,
                   keyPointRect, isInitialized, lastDetection,
                   detectionHistory, now, appended>>

UpdateSettings(p) ==
    /\ settings' = Spread(settings, p)
    /\ Called("updateSettings")
    /\ UNCHANGED <<variant, referenceImage, referenceFeatures, boxRect,
                   keyPointRect, isInitialized, lastDetection,
                   detectionHistory, now, appended>>

----------------------------------------------------------------------------
(* The engine specification *)

\* The app after its constructor and init(): this.state, this.drawing,
\* this.stats, the disabled attribute of the monitoring buttons as
\* updateUI leaves them, and no timer pending.  clock counts units of
\* ten seconds; lastPause and last record the time of the most recent
\* pause request (-1: none yet) and what the last handler did.
\* monitoringInterval is the setInterval handle, 0 for null.
AppInit ==
    [isMonitoring |-> FALSE, isPaused |-> FALSE, hasReferenceImage |-> FALSE,
     isCameraActive |-> FALSE, currentStep |-> "ready", isDrawing |-> FALSE,
     currentRect |-> NULL, boxRect |-> NULL, keyPointRect |-> NULL,
     stats |-> [total |-> 0, normal |-> 0, alert |-> 0],
     startDisabled |-> TRUE, stopDisabled |-> TRUE, pauseDisabled |-> TRUE,
     monitoringInterval |-> 0, intervals |-> {}, nextInterval |-> 1,
     loops |-> 0, pauseTimers |-> << >>,
     clock |-> 0, lastPause |-> -1, last |-> [op |-> "init"]]

Init ==
    /\ variant \in {"v1", "v2"}
    /\ referenceImage = NULL
    /\ referenceFeatures = NULL
    /\ boxRect = NULL
    /\ keyPointRect = NULL
    /\ settings = DefaultSettings
    /\ isInitialized = FALSE
    /\ lastDetection = NULL
    /\ detectionHistory = << >>
    /\ now = 0
    /\ call = [op |-> "constructor"]
    /\ ret = NULL
    /\ appended = << >>
    /\ app = AppInit

Next ==
    \/ \E frame \in Frames, p \in SettingsArgs :
          \E rnd \in DrawsFor(frame, p) :
             AnalyzeFrame(frame, p, rnd) /\ UNCHANGED app
    \/ \E b \in BoxRects, k \in KeyPointRects \cup {NULL} :
          SetReferenceAreas(b, k, NULL) /\ UNCHANGED app
    \/ \E image \in Images \cup {NULL} :
          SetReferenceImage(image) /\ UNCHANGED app
    \/ ClearReference /\ UNCHANGED app
    \/ ResetHistory /\ UNCHANGED app
    \/ \E p \in SettingsArgs : UpdateSettings(p) /\ UNCHANGED app

Spec == Init /\ [][Next]_vars

----------------------------------------------------------------------------
(* The history specification: addToHistory, resetHistory and               *)
(* clearReference called directly on an engine, long enough to pass the     *)
(* capacity.  The result appended at time t is fixed by t, which keeps the  *)
(* state space linear in the number of appends.                             *)

HistResult(t) ==
    [hasAlert |-> (t % 3 = 0),
     message |-> <<Msg(IF t % 3 = 0 THEN "positionShiftPx" ELSE "inCorrectPosition", t)>>,
     box |-> NULL,
     confidence |-> Pct(100) - (t % 7) * 10,
     details |-> [NoDetails EXCEPT !.positionOk = (t % 3 # 0),
                                   !.positionOffset = t]]

HistAdd ==
    /\ now < MaxAppends
    /\ now' = now + 1
    /\ detectionHistory' = AddToHistory(detectionHistory, HistResult(now))
    /\ appended' = Append(appended, Spread(HistResult(now), [timestamp |-> now]))
    /\ Called("addToHistory")
    /\ UNCHANGED <<variant, referenceImage, referenceFeatures, boxRect,
                   keyPointRect, settings, isInitialized, lastDetection>>

\* JavaScript numbers that are quotients of integers are kept as reduced
\* fractions, so that equal numbers are equal values
RECURSIVE Gcd(_, _)
Gcd(a, b) == IF b = 0 THEN a ELSE Gcd(b, a % b)

Frac(n, d) == [num |-> n \div Gcd(n, d), den |-> d \div Gcd(n, d)]

\* history.filter(d => d.hasAlert).length
CountAlerts(history) ==
    Cardinality({i \in 1..Len(history) : history[i].hasAlert})

\* history.reduce((sum, d) => sum + d.confidence, 0), in tenths
RECURSIVE SumConfidence(_)
SumConfidence(history) ==
    IF history = << >> THEN 0
    ELSE history[1].confidence + SumConfidence(Tail(history))

\* getStatistics reporting an average confidence of 0 for an empty history
GetStatisticsZeroDefault(history) ==
    IF Len(history) = 0
    THEN [total |-> 0, alerts |-> 0, alertRate |-> Frac(0, 1),
          averageConfidence |-> Frac(0, 1)]
    ELSE [total |-> Len(history),
          alerts |-> CountAlerts(history),
          alertRate |-> Frac(CountAlerts(history) * 100, Len(history)),
          averageConfidence |-> Frac(SumConfidence(history), Len(history))]

\* getStatistics maintained over everything appended since the last reset,
\* evicted entries included
GetStatisticsSinceReset(history) ==
    IF Len(appended) = 0
    THEN [total |-> 0, alerts |-> 0, alertRate |-> Frac(0, 1),
          averageConfidence |-> Frac(Pct(100), 1)]
    ELSE [total |-> Len(appended),
          alerts |-> CountAlerts(appended),
          alertRate |-> Frac(CountAlerts(appended) * 100, Len(appended)),
          averageConfidence |-> Frac(SumConfidence(appended), Len(appended))]

\* getStatistics() on this.detectionHistory
GetStatistics(history) ==
    IF Len(history) = 0
    THEN [total |-> 0, alerts |-> 0, alertRate |-> Frac(0, 1),
          averageConfidence |-> Frac(Pct(100), 1)]
    ELSE [total |-> Len(history),
          alerts |-> CountAlerts(history),
          alertRate |-> Frac(CountAlerts(history) * 100, Len(history)),
          averageConfidence |-> Frac(SumConfidence(history), Len(history))]

HistStatistics ==
    /\ call' = [op |-> "getStatistics"]
    /\ ret' = GetStatistics(detectionHistory)
    /\ UNCHANGED <<variant, engineVars, now, appended>>

NextHist ==
    \/ HistAdd /\ UNCHANGED app
    \/ ResetHistory /\ UNCHANGED app
    \/ ClearReference /\ UNCHANGED app
    \/ HistStatistics /\ UNCHANGED app

SpecHist == Init /\ [][NextHist]_vars

\* the last n elements of a sequence
LastN(seq, n) == SubSeq(seq, Max(1, Len(seq) - n + 1), Len(seq))

\* C1: the history holds at most 100 entries, and they are the entries
\* appended since the last resetHistory/clearReference, restricted to the
\* 100 most recently appended, in the order they were appended.
C1_HistoryWindow ==
    /\ Len(detectionHistory) <= 100
    /\ detectionHistory = LastN(appended, 100)

\* C1 witness: more than 100 results were appended since the last reset and
\* the oldest ones were evicted.
C1_Witness ==
    /\ Len(appended) > 120
    /\ Len(detectionHistory) = 100
    /\ detectionHistory[1] = appended[Len(appended) - 99]

\* C11: getStatistics returns exactly {total: 0, alerts: 0, alertRate: 0,
\* averageConfidence: 100} whenever the history is empty.
C11_EmptyStatistics ==
    (call.op = "getStatistics" /\ Len(detectionHistory) = 0) =>
        ret = [total |-> 0, alerts |-> 0, alertRate |-> Frac(0, 1),
               averageConfidence |-> Frac(Pct(100), 1)]

\* C11 witness: getStatistics on a history emptied by resetHistory or
\* clearReference after entries had been appended.
C11_Witness ==
    /\ call.op = "getStatistics"
    /\ now > 100
    /\ Len(detectionHistory) = 0
    /\ ret.total = 0 /\ ret.averageConfidence = Frac(Pct(100), 1)

\* the retained window: the 100 most recent of the entries appended since
\* the last reset or clear
Window == LastN(appended, 100)

\* C12: for a non-empty history, total is the number of retained entries,
\* alerts the number of retained entries with hasAlert, alertRate =
\* alerts/total*100 and averageConfidence the mean confidence of the
\* retained entries; evicted entries do not contribute.
C12_StatisticsOfWindow ==
    (call.op = "getStatistics" /\ Len(detectionHistory) > 0) =>
        /\ ret.total = Len(Window)
        /\ ret.alerts = Cardinality({i \in 1..Len(Window) : Window[i].hasAlert})
        /\ ret.alertRate.num * ret.total = ret.alerts * 100 * ret.alertRate.den
        /\ ret.averageConfidence.num * ret.total
               = SumConfidence(Window) * ret.averageConfidence.den
        /\ ret.alertRate.den > 0 /\ ret.averageConfidence.den > 0

\* C12 witness: statistics taken after entries were evicted, with alerting
\* and passing entries in the window.
C12_Witness ==
    /\ call.op = "getStatistics"
    /\ Len(appended) > 120
    /\ ret.total = 100
    /\ ret.alerts > 0 /\ ret.alerts < 100
    /\ ret.averageConfidence.den > 1

----------------------------------------------------------------------------
(* The comparator specification: compareWithReference applied to drawn     *)
(* reference features, settings and observed contours.  The reference      *)
(* rotation, which both engines always store as 0, is drawn from           *)
(* ReferenceRotations here, and the observed rotations cover (-180, 180].  *)

ReferenceRotations == {0, 900, 1700, -1700}

TurnedBack == Contour(40, 5000, Rect(50, 50, 100, 100), -1700)  \* centre (100,100), -170 deg
TurnedOver == Contour(40, 5000, Rect(50, 50, 100, 100), 1800)   \* centre (100,100), 180 deg

CompareContours ==
    {CentredNear, Shifted50, JustOver, Tilted90, Speck, TurnedBack, TurnedOver}

InitCompare ==
    /\ variant \in {"v1", "v2"}
    /\ boxRect = (IF variant = "v2" THEN Rect(20, 20, 300, 300) ELSE NULL)
    /\ keyPointRect = (IF variant = "v2" THEN Rect(50, 50, 200, 200) ELSE NULL)
    /\ referenceImage = (IF variant = "v2" THEN NULL ELSE [width |-> 200, height |-> 200])
    /\ now = 0
    /\ \E rot \in ReferenceRotations :
          referenceFeatures =
             [(IF variant = "v2"
               THEN ExtractFeaturesFromAreas(boxRect, keyPointRect, NULL)
               ELSE ExtractFeatures(referenceImage)) EXCEPT !.rotation = rot]
    /\ settings \in {Spread(DefaultSettings, p) : p \in SettingsArgs}
    /\ isInitialized = TRUE
    /\ lastDetection = NULL
    /\ detectionHistory = << >>
    /\ call = [op |-> "constructor"]
    /\ ret = NULL
    /\ appended = << >>
    /\ app = AppInit

\* compareWithReference(analysis) on the features of one contour (v2)
CompareFeatures(c, rnd) ==
    /\ variant = "v2"
    /\ LET features == AnalyzeContours(<<c>>, settings)
       IN  /\ ret' = CompareWithReferenceV2(features, settings, rnd)
           /\ call' = [op |-> "compareWithReference",
                       frame |-> Frame(TRUE, TRUE, <<c>>),
                       path |-> "compared",
                       observed |-> ObservedFeatures(features)]
    /\ UNCHANGED <<variant, engineVars, now, appended>>

\* compareWithReference(box) on the box of one contour (v1)
CompareBox(c) ==
    /\ variant = "v1"
    /\ LET boxes == ContoursToBoxes(<<c>>, settings)
       IN  /\ Len(boxes) > 0
           /\ ret' = CompareWithReferenceV1(boxes[1], settings)
           /\ call' = [op |-> "compareWithReference",
                       frame |-> Frame(TRUE, TRUE, <<c>>),
                       path |-> "compared",
                       observed |-> ObservedBox(boxes[1])]
    /\ UNCHANGED <<variant, engineVars, now, appended>>

NextCompare ==
    \/ \E c \in CompareContours, rnd \in RandomDraws :
          CompareFeatures(c, rnd) /\ UNCHANGED app
    \/ \E c \in CompareContours : CompareBox(c) /\ UNCHANGED app

SpecCompare == InitCompare /\ [][NextCompare]_vars

----------------------------------------------------------------------------
(* The region specification: extractROI applied to frames of several sizes *)
(* and rectangles inside, across and outside the frame, and analyzeFrame   *)
(* of the drawing-mode engine on a key-point area drawn from the same      *)
(* rectangles.                                                             *)

IsAnalyze == call.op = "analyzeFrame"

RoiRects ==
    { Rect(50, 50, 200, 200),       \* inside a 640 x 480 frame
      Rect(-30, -20, 100, 100),     \* across the top left corner
      Rect(600, 400, 100, 100),     \* across the bottom right corner
      Rect(700, 500, 50, 50),       \* beyond the bottom right corner
      Rect(-100, -100, 50, 50),     \* beyond the top left corner
      Rect(-10, -10, 1000, 1000),   \* covering the frame
      Rect(50, 50, 0, 40) }         \* a degenerate rectangle of no width

RoiFrames ==
    { Frame(FALSE, FALSE, << >>),
      Frame(TRUE, TRUE, <<CentredNear>>),
      Sized(Frame(TRUE, TRUE, <<Shifted50>>), 100, 80),
      Sized(Frame(TRUE, FALSE, << >>), 1, 1) }

InitROI ==
    /\ variant = "v2"
    /\ boxRect = Rect(20, 20, 300, 300)
    /\ keyPointRect \in RoiRects
    /\ referenceImage = NULL
    /\ referenceFeatures = ExtractFeaturesFromAreas(boxRect, keyPointRect, NULL)
    /\ settings = DefaultSettings
    /\ isInitialized = TRUE
    /\ lastDetection = NULL
    /\ detectionHistory = << >>
    /\ now = 0
    /\ call = [op |-> "constructor"]
    /\ ret = NULL
    /\ appended = << >>
    /\ app = AppInit

\* extractROI(frameData, rect); region is the local scaledRect
ExtractRegion(frame, rect) ==
    /\ call' = [op |-> "extractROI", frame |-> frame, rect |-> rect,
                region |-> ScaledRect(frame, rect)]
    /\ ret' = ExtractROI(frame, rect)
    /\ UNCHANGED <<variant, engineVars, now, appended>>

NextROI ==
    \/ \E frame \in {f \in RoiFrames : f.hasImageData}, rect \in RoiRects :
          ExtractRegion(frame, rect) /\ UNCHANGED app
    \/ \E frame \in RoiFrames :
          \E rnd \in DrawsFor(frame, << >>) :
             AnalyzeFrame(frame, << >>, rnd) /\ UNCHANGED app

SpecROI == InitROI /\ [][NextROI]_vars

\* the rectangle has a point within [0,W) x [0,H)
Intersects(rect, frame) ==
    /\ rect.width > 0 /\ rect.height > 0
    /\ rect.x < frame.width /\ rect.y < frame.height
    /\ rect.x + rect.width > 0 /\ rect.y + rect.height > 0

\* C13: for every frame of size W x H with pixel data and every rectangle,
\* the region extractROI crops has 0 <= x, 0 <= y, x + width <= W and
\* y + height <= H, and has zero area only when the rectangle does not
\* intersect the frame.
C13_RegionWithinFrame ==
    call.op = "extractROI" =>
        LET r == call.region
        IN  /\ 0 <= r.x /\ 0 <= r.y
            /\ r.x + r.width <= call.frame.width
            /\ r.y + r.height <= call.frame.height
            /\ ret # NULL => r = ret.originalRect
            /\ (r.width * r.height = 0) => ~Intersects(call.rect, call.frame)

\* C13 witness: a rectangle across the bottom right corner of a 640 x 480
\* frame is cut to the 40 x 80 pixels inside the frame.
C13_Witness ==
    /\ call.op = "extractROI"
    /\ call.frame.width = 640
    /\ call.rect = Rect(600, 400, 100, 100)
    /\ ret # NULL
    /\ ret.originalRect = Rect(600, 400, 40, 80)

\* the region analyzeFrame could not extract from the last frame
NoRegion ==
    \/ ~call.frame.hasImageData
    \/ ScaledRect(call.frame, keyPointRect).width
          * ScaledRect(call.frame, keyPointRect).height = 0

\* C14: extractROI returns null when the frame has no pixel data or the
\* clamped rectangle has zero area, and analyzeFrame (drawing mode, reference
\* set) then returns a result with hasAlert = false.
C14_NullRegionNotEvaluable ==
    /\ (call.op = "extractROI"
          /\ (~call.frame.hasImageData \/ call.region.width * call.region.height = 0))
         => ret = NULL
    /\ (IsAnalyze /\ ~call.frame.isNull /\ isInitialized /\ NoRegion)
         => (call.path = "roiFailed" /\ ret.hasAlert = FALSE)

\* C14 witness: analyzeFrame on a frame with pixel data whose key-point
\* area is clamped to zero area.
C14_Witness ==
    /\ IsAnalyze
    /\ call.frame.hasImageData
    /\ keyPointRect = Rect(50, 50, 0, 40)
    /\ call.path = "roiFailed"
    /\ ret.hasAlert = FALSE

----------------------------------------------------------------------------
(* Properties of analyzeFrame and compareWithReference *)

\* the last call ran compareWithReference
Compared ==
    /\ call.op \in {"analyzeFrame", "compareWithReference"}
    /\ call.path = "compared"

\* the last call ran compareWithReference on features that have a box
BoxObserved ==
    /\ Compared
    /\ call.observed # NULL
    /\ call.observed.hasBox

Sq(n) == n * n

\* r = Math.round(x) for the x >= 0 with x * x = xx / scale^2 (scale 2 for
\* a squared distance in half pixels): r - 1/2 <= x < r + 1/2
IsRounded(r, xx, scale) ==
    /\ r >= 0
    /\ r = 0 \/ Sq(scale * (2 * r - 1)) <= 4 * xx
    /\ 4 * xx < Sq(scale * (2 * r + 1))

WithoutTimestamp(entry) ==
    [k \in (DOMAIN entry) \ {"timestamp"} |-> entry[k]]

ResultKeys == {"hasAlert", "message", "box", "confidence", "details"}
DetailKeys == {"positionOffset", "rotationOffset", "positionOk", "rotationOk"}

\* C2: every call of analyzeFrame returns a well-formed DetectionResult:
\* hasAlert, message, box, a confidence within 0..100 and a details record
\* with positionOffset, rotationOffset, positionOk and rotationOk.
C2_WellFormedResult ==
    IsAnalyze =>
        /\ ResultKeys \subseteq DOMAIN ret
        /\ ret.hasAlert \in BOOLEAN
        /\ ret.confidence \in 0..Pct(100)
        /\ DetailKeys \subseteq DOMAIN ret.details

\* the frame of the last call carried a pixel buffer a pipeline stage
\* failed on
PipelineFailed ==
    /\ IsAnalyze
    /\ ~call.frame.isNull
    /\ call.frame.hasImageData
    /\ ~call.frame.pixelsOk

\* C3: when a reference is set and a stage of the pipeline fails on the
\* analysed frame, analyzeFrame returns hasAlert = true and confidence 0.
C3_PipelineFaultAlerts ==
    (PipelineFailed /\ isInitialized) =>
        (ret.hasAlert /\ ret.confidence = 0)

\* C4 as claimed: every result analyzeFrame returns is the newest history
\* entry and lastDetection equals it.
C4_EveryResultRecorded ==
    IsAnalyze =>
        /\ lastDetection = ret
        /\ Len(detectionHistory) > 0
        /\ WithoutTimestamp(detectionHistory[Len(detectionHistory)]) = ret

\* C4 as amended: a result analyzeFrame obtains from compareWithReference
\* is appended to the history (as a copy with a timestamp, evicting the
\* oldest entry at capacity) and retained as lastDetection; a result
\* returned on another path (no reference or null frame, ROI extraction
\* failed, no box in legacy mode, caught exception) leaves detectionHistory
\* and lastDetection unchanged.
C4_ComparedResultsRecorded ==
    [][ call'.op = "analyzeFrame" =>
          IF call'.path = "compared"
          THEN /\ lastDetection' = ret'
               /\ Len(detectionHistory') = Min(Len(detectionHistory) + 1, 100)
               /\ WithoutTimestamp(detectionHistory'[Len(detectionHistory')]) = ret'
          ELSE UNCHANGED <<detectionHistory, lastDetection>> ]_vars

\* C4 witness: a second compared result was returned and recorded.
C4_Witness ==
    /\ IsAnalyze
    /\ call.path = "compared"
    /\ Len(detectionHistory) = 2
    /\ lastDetection = ret
    /\ detectionHistory[1].hasAlert # detectionHistory[2].hasAlert

\* C5: two analyses of the same frame under the same reference and the
\* same settings return the same verdict.
C5_Deterministic ==
    [][ ( /\ call.op = "analyzeFrame"
          /\ call'.op = "analyzeFrame"
          /\ call'.frame = call.frame
          /\ call'.observed = call.observed
          /\ settings' = settings
          /\ UNCHANGED <<referenceImage, referenceFeatures, boxRect,
                         keyPointRect, isInitialized>> )
        => ( /\ ret'.hasAlert = ret.hasAlert
             /\ ret'.message = ret.message
             /\ ret'.confidence = ret.confidence
             /\ ("details" \in DOMAIN ret => ret'.details = ret.details) ) ]_vars

\* squared distance (half pixels) of the observed centre to a centre
ObservedDist2(cx, cy) ==
    Sq(call.observed.x - cx) + Sq(call.observed.y - cy)

\* the centre the engine compares against, in half pixels: the centre of
\* the key-point area in its own coordinates (v2), the centre stored in the
\* reference features (v1)
ExpectedCentre ==
    IF variant = "v2"
    THEN [x |-> keyPointRect.width, y |-> keyPointRect.height]
    ELSE [x |-> referenceFeatures.centerX, y |-> referenceFeatures.centerY]

RotationDiff == Abs(call.observed.rotation - referenceFeatures.rotation)

AlertIffAxisFails(r) ==
    /\ "details" \in DOMAIN r
    /\ r.hasAlert <=> (~r.details.positionOk \/ ~r.details.rotationOk)

\* C8: every result of compareWithReference with a reference set, and
\* every entry of detectionHistory, has
\* hasAlert = (not details.positionOk) or (not details.rotationOk).
C8_AlertIffAxisFails ==
    /\ (Compared /\ referenceFeatures # NULL) => AlertIffAxisFails(ret)
    /\ \A i \in 1..Len(detectionHistory) : AlertIffAxisFails(detectionHistory[i])

\* C8 witness: the history holds an entry that passes and an entry that
\* alerts on rotation alone.
C8_Witness ==
    /\ Compared
    /\ Len(detectionHistory) = 2
    /\ ~detectionHistory[1].hasAlert
    /\ detectionHistory[2].hasAlert
    /\ detectionHistory[2].details.positionOk
    /\ ~detectionHistory[2].details.rotationOk

\* C9: a result of compareWithReference with a reference set has
\* confidence 100 when hasAlert is false and
\* max(0, 100 - positionOffset/5 - rotationOffset*2) when hasAlert is true
\* (to the rounding of the two reported offsets: 0.5/5 + 0.5*2 = 1.1, and
\* the tenth the model keeps), and stays within 0..100.
C9_Confidence ==
    (Compared /\ referenceFeatures # NULL) =>
        /\ ret.confidence \in 0..Pct(100)
        /\ ~ret.hasAlert => ret.confidence = Pct(100)
        /\ ret.hasAlert =>
              Abs(ret.confidence
                  - Max(0, Pct(100) - 2 * ret.details.positionOffset
                                    - 20 * ret.details.rotationOffset)) <= 12

\* C10: with no reference set, analyzeFrame returns hasAlert = false and
\* confidence 0 for every frame and settings argument.
C10_NoReferenceNeutral ==
    (IsAnalyze /\ ~isInitialized) =>
        /\ ret # NULL
        /\ ret.hasAlert = FALSE
        /\ ret.confidence = 0

\* C10 witness: a frame with two boxes analysed on an engine whose
\* reference was never set or was cleared.
C10_Witness ==
    /\ IsAnalyze
    /\ ~isInitialized
    /\ Len(call.frame.contours) = 2
    /\ now = 2
    /\ ret.hasAlert = FALSE /\ ret.confidence = 0

----------------------------------------------------------------------------
(* The application: VisualControlApp v2.0 (drawing mode, with engine v2)   *)
(* and VisualControlApp v1.0 (legacy, with engine v1), selected by         *)
(* variant.  A handler is a function from the app record to the app        *)
(* record; the actions below apply the handlers to the events of the page. *)

\* updateUI: the disabled attribute of the start and pause buttons
UpdateUI(a) ==
    IF variant = "v2"
    THEN [a EXCEPT !.startDisabled =
                       (a.currentStep # "ready-monitor" \/ a.isMonitoring),
                   !.stopDisabled = ~a.isMonitoring,
                   !.pauseDisabled = ~a.isMonitoring]
    ELSE [a EXCEPT !.startDisabled =
                       (~a.hasReferenceImage \/ a.isMonitoring),
                   !.stopDisabled = ~a.isMonitoring]

\* canDraw
CanDraw(a) == a.currentStep \in {"drawing-box", "drawing-keypoint"}

\* camera.on('started')
OnCameraStarted(a) ==
    IF variant = "v2"
    THEN [a EXCEPT !.isCameraActive = TRUE, !.currentStep = "camera-ready"]
    ELSE [a EXCEPT !.isCameraActive = TRUE]

\* camera.on('error')
OnCameraError(a) == [a EXCEPT !.isCameraActive = FALSE]

\* handleStartDrawingBox
HandleStartDrawingBox(a) ==
    IF ~a.isCameraActive THEN a
    ELSE UpdateUI([a EXCEPT !.currentStep = "drawing-box"])

\* handleStartDrawingKeyPoint
HandleStartDrawingKeyPoint(a) ==
    IF a.boxRect = NULL THEN a
    ELSE UpdateUI([a EXCEPT !.currentStep = "drawing-keypoint"])

\* handleClearDrawing
HandleClearDrawing(a) ==
    UpdateUI([a EXCEPT !.boxRect = NULL, !.keyPointRect = NULL,
                       !.currentRect = NULL, !.hasReferenceImage = FALSE,
                       !.currentStep = IF a.isCameraActive
                                       THEN "camera-ready" ELSE "ready"])

\* where every drag of the model starts (drawing.startX, drawing.startY)
DragStart == [x |-> 40, y |-> 40]

\* the points a drag is moved to: 15, 20 and 25 units from the start, one
\* of them up and to the left, one with a single short side
DragPoints ==
    { [x |-> 55, y |-> 55], [x |-> 60, y |-> 60], [x |-> 65, y |-> 65],
      [x |-> 15, y |-> 15], [x |-> 65, y |-> 55] }

\* handleMouseDown
HandleMouseDown(a) ==
    IF ~CanDraw(a) THEN a ELSE [a EXCEPT !.isDrawing = TRUE]

\* handleMouseMove to the point pt
HandleMouseMove(a, pt) ==
    IF ~a.isDrawing \/ ~CanDraw(a) THEN a
    ELSE [a EXCEPT !.currentRect =
              Rect(Min(DragStart.x, pt.x), Min(DragStart.y, pt.y),
                   Abs(pt.x - DragStart.x), Abs(pt.y - DragStart.y))]

\* handleMouseUp
HandleMouseUp(a) ==
    IF ~a.isDrawing \/ ~CanDraw(a) THEN a
    ELSE LET ok == /\ a.currentRect # NULL
                   /\ a.currentRect.width > 20
                   /\ a.currentRect.height > 20
             stored ==
                 IF ~ok THEN a
                 ELSE IF a.currentStep = "drawing-box"
                 THEN [a EXCEPT !.boxRect = a.currentRect,
                                !.currentStep = "box-drawn"]
                 ELSE [a EXCEPT !.keyPointRect = a.currentRect,
                                !.currentStep = "ready-monitor",
                                !.hasReferenceImage = TRUE]
         IN  UpdateUI([stored EXCEPT !.isDrawing = FALSE, !.currentRect = NULL])

\* Bounds of the application model: detections counted, setInterval
\* handles handed out (v2) or loop callbacks pending (v1), clock units.
MaxDetections == 2
MaxStarts == 2
MaxClock == 3

\* the 30000 ms of the pause timeout, in clock units of ten seconds
PauseWindow == 3

\* what the last handler did
Did(op) ==
    [op |-> op, detected |-> FALSE, hasAlert |-> FALSE, notified |-> FALSE]

\* handleStopMonitoring
HandleStopMonitoring(a) ==
    IF variant = "v2"
    THEN [a EXCEPT !.isMonitoring = FALSE, !.currentStep = "ready-monitor",
                   !.intervals = a.intervals \ {a.monitoringInterval},
                   !.monitoringInterval = 0]
    ELSE [a EXCEPT !.isMonitoring = FALSE, !.startDisabled = FALSE,
                   !.stopDisabled = TRUE, !.pauseDisabled = TRUE]

\* handleStartMonitoring of v2, with startMonitoringLoop: a new setInterval
\* handle replaces this.monitoringInterval
HandleStartMonitoringV2(a) ==
    IF ~a.hasReferenceImage \/ a.boxRect = NULL \/ a.keyPointRect = NULL
    THEN a
    ELSE [a EXCEPT !.isMonitoring = TRUE, !.currentStep = "monitoring",
                   !.monitoringInterval = a.nextInterval,
                   !.intervals = a.intervals \cup {a.nextInterval},
                   !.nextInterval = a.nextInterval + 1]

\* handlePauseAlert: isPaused, the button disabled, and a timeout of 30 s
HandlePauseAlert(a) ==
    [a EXCEPT !.isPaused = TRUE, !.pauseDisabled = TRUE,
              !.pauseTimers = Append(a.pauseTimers, a.clock + PauseWindow),
              !.lastPause = a.clock]

\* the callback of the pause timeout
OnPauseTimeout(a) ==
    [a EXCEPT !.isPaused = FALSE, !.pauseDisabled = FALSE,
              !.pauseTimers = Tail(a.pauseTimers)]

\* handleResetStats leaving normal and alert as they were
HandleResetStatsTotalOnly(a) ==
    [a EXCEPT !.stats.total = 0]

\* handleResetStats
HandleResetStats(a) ==
    [a EXCEPT !.stats = [total |-> 0, normal |-> 0, alert |-> 0]]

\* counting that pauses together with the notification
CountedUnlessPaused(a, op, hasAlert) ==
    IF a.isPaused
    THEN [a EXCEPT !.last = [op |-> op, detected |-> TRUE, hasAlert |-> hasAlert,
                             notified |-> FALSE]]
    ELSE [a EXCEPT !.stats = [total |-> a.stats.total + 1,
                              alert |-> a.stats.alert + (IF hasAlert THEN 1 ELSE 0),
                              normal |-> a.stats.normal + (IF hasAlert THEN 0 ELSE 1)],
                   !.last = [op |-> op, detected |-> TRUE, hasAlert |-> hasAlert,
                             notified |-> hasAlert]]

\* the counting and notifying that handleDetectionResult and
\* performDetection share: total and alert or normal grow, and
\* audio.playAlert / showAlert are called unless isPaused (the rectangle
\* on the overlay, drawAlertRect / drawDetectionBox, is not part of it: v1
\* draws it for every result, v2 for every alerting one)
Counted(a, op, hasAlert) ==
    [a EXCEPT !.stats = [total |-> a.stats.total + 1,
                         alert |-> a.stats.alert + (IF hasAlert THEN 1 ELSE 0),
                         normal |-> a.stats.normal + (IF hasAlert THEN 0 ELSE 1)],
              !.last = [op |-> op, detected |-> TRUE, hasAlert |-> hasAlert,
                        notified |-> hasAlert /\ ~a.isPaused]]

\* handleDetectionResult(result)
HandleDetectionResult(a, result) ==
    Counted(a, "handleDetectionResult", result.hasAlert)

\* performDetection (v2); shouldAlert is Math.random() < 0.1
PerformDetection(a, shouldAlert) ==
    IF ~a.isMonitoring \/ a.keyPointRect = NULL
    THEN [a EXCEPT !.last = Did("performDetection")]
    ELSE Counted(a, "performDetection", shouldAlert)

\* processFrame (v2) on a captured frame; hasAlert is Math.random() < 0.05
ProcessFrameV2(a, hasAlert) ==
    IF a.keyPointRect # NULL /\ hasAlert
    THEN HandleDetectionResult(a, [hasAlert |-> TRUE])
    ELSE [a EXCEPT !.last = Did("processFrame")]

\* a handler that does not call the engine
EngineIdle == UNCHANGED <<variant, engineVars, now, call, ret, appended>>

\* this.settings of the app, the argument of analyzeFrame
AppSettings ==
    [rotationSensitivity |-> 5, positionSensitivity |-> 20,
     detectionThreshold |-> 50]

\* what camera.getCurrentFrame() captures while the camera is active
AppFrames ==
    { Frame(TRUE, TRUE, <<CentredNear>>), Frame(TRUE, TRUE, <<Shifted50>>) }

CanCount(a) == a.stats.total < MaxDetections

\* processFrame (v1): analyzeFrame on the captured frame, then
\* handleDetectionResult; nothing without a frame
ProcessFrameV1(a) ==
    IF ~a.isCameraActive
    THEN app' = a /\ EngineIdle
    ELSE /\ CanCount(a)
         /\ \E frame \in AppFrames :
               \E rnd \in DrawsFor(frame, AppSettings) :
                  /\ AnalyzeFrame(frame, AppSettings, rnd)
                  /\ app' = HandleDetectionResult(a, ret')

\* startMonitoringLoop (v1) without its isMonitoring test
StartMonitoringLoopV1Unguarded(a) ==
    /\ a.loops < MaxStarts
    /\ ProcessFrameV1([a EXCEPT !.loops = a.loops + 1])

\* startMonitoringLoop (v1): process a frame and schedule the next call
StartMonitoringLoopV1(a) ==
    IF ~a.isMonitoring
    THEN app' = a /\ EngineIdle
    ELSE /\ a.loops < MaxStarts
         /\ ProcessFrameV1([a EXCEPT !.loops = a.loops + 1])

\* handleStartMonitoring
StartMonitoring(a) ==
    IF variant = "v2"
    THEN /\ a.nextInterval <= MaxStarts
         /\ app' = HandleStartMonitoringV2(a)
         /\ EngineIdle
    ELSE IF ~a.hasReferenceImage
    THEN app' = a /\ EngineIdle
    ELSE StartMonitoringLoopV1(
             [a EXCEPT !.isMonitoring = TRUE, !.startDisabled = TRUE,
                       !.stopDisabled = FALSE, !.pauseDisabled = FALSE])

\* a click on the start button
ClickStart ==
    /\ ~app.startDisabled
    /\ StartMonitoring([app EXCEPT !.last = Did("handleStartMonitoring")])

\* a click on the stop button
ClickStop ==
    /\ ~app.stopDisabled
    /\ app' = [HandleStopMonitoring(app) EXCEPT
                  !.last = Did("handleStopMonitoring")]
    /\ EngineIdle

\* the space key: stop when monitoring, start when a reference is held
KeySpace ==
    IF app.isMonitoring
    THEN /\ app' = [HandleStopMonitoring(app) EXCEPT
                       !.last = Did("handleStopMonitoring")]
         /\ EngineIdle
    ELSE /\ app.hasReferenceImage
         /\ StartMonitoring([app EXCEPT !.last = Did("handleStartMonitoring")])

\* a click on the pause button
ClickPause ==
    /\ ~app.pauseDisabled
    /\ app.clock + PauseWindow <= MaxClock + PauseWindow
    /\ Len(app.pauseTimers) < MaxStarts
    /\ app' = [HandlePauseAlert(app) EXCEPT !.last = Did("handlePauseAlert")]
    /\ EngineIdle

\* the pause timeout fires once its 30 s have passed
PauseTimeout ==
    /\ app.pauseTimers # << >>
    /\ Head(app.pauseTimers) <= app.clock
    /\ app' = [OnPauseTimeout(app) EXCEPT !.last = Did("pauseTimeout")]
    /\ EngineIdle

\* ten seconds pass while a pause timeout is pending; a timeout that is
\* due fires first
Tick ==
    /\ app.clock < MaxClock
    /\ app.pauseTimers # << >>
    /\ \A i \in 1..Len(app.pauseTimers) : app.pauseTimers[i] > app.clock
    /\ app' = [app EXCEPT !.clock = app.clock + 1, !.last = Did("tick")]
    /\ EngineIdle

\* a click on reset statistics
ClickResetStats ==
    /\ app' = [HandleResetStats(app) EXCEPT !.last = Did("handleResetStats")]
    /\ EngineIdle

\* the callback of a setInterval handle that was not cleared (v2)
IntervalCallback(id, shouldAlert) ==
    /\ variant = "v2"
    /\ id \in app.intervals
    /\ IF app.isMonitoring
       THEN /\ CanCount(app)
            /\ app' = PerformDetection(app, shouldAlert)
       ELSE app' = [app EXCEPT !.last = Did("intervalCallback")]
    /\ EngineIdle

\* the pending call of startMonitoringLoop (v1)
LoopCallback ==
    /\ variant = "v1"
    /\ app.loops > 0
    /\ StartMonitoringLoopV1([app EXCEPT !.loops = app.loops - 1,
                                         !.last = Did("startMonitoringLoop")])

\* camera.on('frameUpdate'), emitted while the camera is active
FrameUpdate(hasAlert) ==
    /\ app.isCameraActive
    /\ LET a == [app EXCEPT !.last = Did("frameUpdate")]
       IN  IF ~(a.isMonitoring /\ a.hasReferenceImage)
           THEN app' = a /\ EngineIdle
           ELSE IF variant = "v1"
           THEN ProcessFrameV1(a)
           ELSE /\ CanCount(a)
                /\ app' = ProcessFrameV2(a, hasAlert)
                /\ EngineIdle

\* camera 'started' after handleStartCamera
CameraStarted ==
    /\ ~app.isCameraActive
    /\ app' = [OnCameraStarted(app) EXCEPT !.last = Did("cameraStarted")]
    /\ EngineIdle

\* camera 'error'
CameraError ==
    /\ app' = [OnCameraError(app) EXCEPT !.last = Did("cameraError")]
    /\ EngineIdle

\* handleTakeReference: setReferenceImage on the captured frame
TakeReference ==
    IF ~app.isCameraActive
    THEN /\ app' = [app EXCEPT !.last = Did("handleTakeReference")]
         /\ EngineIdle
    ELSE /\ \E image \in Images : SetReferenceImage(image)
         /\ app' = [app EXCEPT !.hasReferenceImage = TRUE,
                               !.startDisabled = FALSE,
                               !.last = Did("handleTakeReference")]

\* handleClearReference: clearReference, then the app's own reference
\* state, then handleStopMonitoring when monitoring
ClearReferenceClick ==
    /\ ClearReference
    /\ LET a == [app EXCEPT !.last = Did("handleClearReference")]
           cleared == IF variant = "v2"
                      THEN HandleClearDrawing(a)
                      ELSE [a EXCEPT !.hasReferenceImage = FALSE,
                                     !.startDisabled = TRUE]
       IN  app' = IF cleared.isMonitoring
                  THEN HandleStopMonitoring(cleared) ELSE cleared

\* the drawing controls and the mouse on the drawing canvas (v2)
StartDrawingBox ==
    /\ variant = "v2"
    /\ app' = [HandleStartDrawingBox(app) EXCEPT
                  !.last = Did("handleStartDrawingBox")]
    /\ EngineIdle

StartDrawingKeyPoint ==
    /\ variant = "v2"
    /\ app' = [HandleStartDrawingKeyPoint(app) EXCEPT
                  !.last = Did("handleStartDrawingKeyPoint")]
    /\ EngineIdle

ClearDrawing ==
    /\ variant = "v2"
    /\ app' = [HandleClearDrawing(app) EXCEPT
                  !.last = Did("handleClearDrawing")]
    /\ EngineIdle

MouseDown ==
    /\ variant = "v2"
    /\ app' = [HandleMouseDown(app) EXCEPT !.last = Did("handleMouseDown")]
    /\ EngineIdle

MouseMove(pt) ==
    /\ variant = "v2"
    /\ app' = [HandleMouseMove(app, pt) EXCEPT
                  !.last = Did("handleMouseMove")]
    /\ EngineIdle

\* mouseup on the drawing canvas (v2); last keeps the rectangle drawn and
\* the step it was drawn in
MouseUp ==
    /\ variant = "v2"
    /\ EngineIdle
    /\ app' = [HandleMouseUp(app) EXCEPT
                  !.last = [op |-> "handleMouseUp", detected |-> FALSE,
                            hasAlert |-> FALSE, notified |-> FALSE,
                            drawing |-> app.isDrawing /\ CanDraw(app),
                            step |-> app.currentStep,
                            rect |-> app.currentRect]]

\* The drawing specification: the camera and the drawing workflow of v2.
NextDraw ==
    \/ CameraStarted
    \/ CameraError
    \/ StartDrawingBox
    \/ StartDrawingKeyPoint
    \/ ClearDrawing
    \/ MouseDown
    \/ \E pt \in DragPoints : MouseMove(pt)
    \/ MouseUp

SpecDraw == Init /\ [][NextDraw]_vars

----------------------------------------------------------------------------
\* the minimum size of a drawn rectangle, in canvas units
MinRectSize == 20

\* the last handler was a mouse-up that ended a drag over a rectangle
EndedDrag ==
    /\ app.last.op = "handleMouseUp"
    /\ app.last.drawing
    /\ app.last.rect # NULL

\* the rectangle of the drag that just ended is the one now stored for its step
StoredDrag ==
    IF app.last.step = "drawing-box"
    THEN app.boxRect = app.last.rect /\ app.currentStep = "box-drawn"
    ELSE app.keyPointRect = app.last.rect /\ app.currentStep = "ready-monitor"

\* C15: on mouse-up in a drawing step the drawn rectangle is stored as
\* boxRect or keyPointRect if and only if its width and its height are both
\* at least the minimum size of 20 units.
C15_StoredIffAtLeastMinimum ==
    EndedDrag =>
        (StoredDrag <=> /\ app.last.rect.width >= MinRectSize
                        /\ app.last.rect.height >= MinRectSize)

----------------------------------------------------------------------------
(* The reference specification: the public operations of the engine and    *)
(* the camera events the app listens to, in any order.                     *)

\* camera 'stopped' (CameraManager.stop): the app registers no listener
CameraStopped ==
    /\ app' = [app EXCEPT !.last = Did("cameraStopped")]
    /\ EngineIdle

NextRef ==
    \/ \E frame \in AppFrames :
          \E rnd \in DrawsFor(frame, << >>) :
             AnalyzeFrame(frame, << >>, rnd) /\ UNCHANGED app
    \/ \E b \in BoxRects, k \in KeyPointRects \cup {NULL} :
          SetReferenceAreas(b, k, NULL) /\ UNCHANGED app
    \/ \E image \in Images : SetReferenceImage(image) /\ UNCHANGED app
    \/ ClearReference /\ UNCHANGED app
    \/ ResetHistory /\ UNCHANGED app
    \/ \E p \in SettingsArgs : UpdateSettings(p) /\ UNCHANGED app
    \/ CameraStarted
    \/ CameraError
    \/ CameraStopped

SpecRef == Init /\ [][NextRef]_vars

\* the reference data of the engine
ReferenceData ==
    <<boxRect, keyPointRect, referenceFeatures, referenceImage, isInitialized>>

\* C16: once a reference is set, boxRect, keyPointRect, the reference
\* features, the reference image and the initialized flag change only in a
\* step that is a call of setReferenceAreas, setReferenceImage or
\* clearReference: analyzeFrame (which advances the time), updateSettings,
\* resetHistory and the camera's started, error and stopped events (which
\* run the app's listeners) leave them as they are.
C16_ReferenceKept ==
    [][ (isInitialized /\ ReferenceData' # ReferenceData) =>
            /\ call'.op \in {"setReferenceAreas", "setReferenceImage",
                             "clearReference"}
            /\ now' = now
            /\ app' = app ]_vars

\* C16 witness: with a reference set, the camera failed and started again,
\* the settings were updated and two frames were analysed, and the reference
\* is still the one that was set.
C16_Witness ==
    /\ isInitialized
    /\ variant = "v2"
    /\ keyPointRect = Rect(50, 50, 200, 200)
    /\ referenceFeatures = ExtractFeaturesFromAreas(boxRect, keyPointRect, NULL)
    /\ app.isCameraActive /\ app.last.op = "cameraStarted"
    /\ settings.positionSensitivity = 60
    /\ now = 2
    /\ Len(detectionHistory) = 2

\* the history after a step that cleared nothing: as it was, or with one
\* entry appended (the oldest evicted at capacity)
HistoryKept ==
    \/ detectionHistory' = detectionHistory
    \/ /\ detectionHistory' # << >>
       /\ SubSeq(detectionHistory', 1, Len(detectionHistory') - 1)
             = LastN(detectionHistory, HistoryCapacity - 1)

\* C17: detectionHistory and lastDetection are emptied only by resetHistory
\* and clearReference: in every other step (setReferenceAreas,
\* setReferenceImage, updateSettings, analyzeFrame, the camera events) the
\* history stays or grows by one appended entry, and a lastDetection that
\* was held is still held.
C17_HistoryClearedOnlyExplicitly ==
    [][ \/ /\ call'.op \in {"resetHistory", "clearReference"}
           /\ now' = now
           /\ app' = app
        \/ /\ HistoryKept
           /\ (lastDetection # NULL => lastDetection' # NULL) ]_vars

\* C17 witness: after two recorded analyses the reference was replaced by
\* setReferenceAreas, and the two entries and lastDetection are still there.
C17_Witness ==
    /\ call.op = "setReferenceAreas"
    /\ isInitialized
    /\ Len(detectionHistory) = 2
    /\ lastDetection # NULL

----------------------------------------------------------------------------
(* The monitoring specification: the app from its first page load through  *)
(* camera start, reference, monitoring, pause and the timers.              *)

\* the drag that draws the rectangle of the reference areas
SetupPoint == [x |-> 65, y |-> 65]

\* the steps that bring the app to a reference: camera start, then the two
\* rectangles drawn (v2) or a reference frame taken (v1)
Setup ==
    \/ CameraStarted
    \/ StartDrawingBox
    \/ StartDrawingKeyPoint
    \/ MouseDown
    \/ MouseMove(SetupPoint)
    \/ MouseUp
    \/ TakeReference

\* a detection is due: a setInterval callback (v2), the pending call of
\* startMonitoringLoop (v1), or a frameUpdate of the camera
Detection ==
    \/ \E id \in 1..MaxStarts, shouldAlert \in BOOLEAN :
          IntervalCallback(id, shouldAlert)
    \/ LoopCallback
    \/ \E hasAlert \in BOOLEAN : FrameUpdate(hasAlert)

NextApp ==
    \/ Setup
    \/ Detection
    \/ ClickStart
    \/ ClickStop
    \/ KeySpace
    \/ ClickResetStats
    \/ ClearReferenceClick
    \/ ClearDrawing
    \/ CameraError

SpecApp == Init /\ [][NextApp]_vars

\* The pause specification: monitoring with the pause button, its timeouts
\* and the passing of time, from the state in which the reference is ready:
\* the camera started and both rectangles drawn (v2), or the camera started
\* and a reference frame taken (v1).
ReferenceRect == Rect(40, 40, 25, 25)

InitPause ==
    /\ variant \in {"v1", "v2"}
    /\ referenceImage = (IF variant = "v1" THEN [width |-> 200, height |-> 200]
                         ELSE NULL)
    /\ referenceFeatures = (IF variant = "v1" THEN ExtractFeatures(referenceImage)
                            ELSE NULL)
    /\ boxRect = NULL
    /\ keyPointRect = NULL
    /\ settings = DefaultSettings
    /\ isInitialized = (variant = "v1")
    /\ lastDetection = NULL
    /\ detectionHistory = << >>
    /\ now = 0
    /\ call = (IF variant = "v1" THEN [op |-> "setReferenceImage"]
               ELSE [op |-> "constructor"])
    /\ ret = NULL
    /\ appended = << >>
    /\ app = IF variant = "v1"
             THEN [AppInit EXCEPT !.isCameraActive = TRUE,
                                  !.hasReferenceImage = TRUE,
                                  !.startDisabled = FALSE,
                                  !.last = Did("handleTakeReference")]
             ELSE [AppInit EXCEPT !.isCameraActive = TRUE,
                                  !.hasReferenceImage = TRUE,
                                  !.currentStep = "ready-monitor",
                                  !.boxRect = ReferenceRect,
                                  !.keyPointRect = ReferenceRect,
                                  !.startDisabled = FALSE,
                                  !.last = [op |-> "handleMouseUp",
                                            detected |-> FALSE,
                                            hasAlert |-> FALSE,
                                            notified |-> FALSE,
                                            drawing |-> TRUE,
                                            step |-> "drawing-keypoint",
                                            rect |-> ReferenceRect]]

NextPause ==
    \/ Detection
    \/ ClickStart
    \/ KeySpace
    \/ StartDrawingKeyPoint
    \/ ClickPause
    \/ PauseTimeout
    \/ Tick

SpecPause == InitPause /\ [][NextPause]_vars

C19_SuppressedForWindow ==
    app.last.notified =>
        \/ app.lastPause < 0
        \/ app.clock - app.lastPause >= PauseWindow

\* the counters of this.stats as handleResetStats leaves them
NoStats == [total |-> 0, normal |-> 0, alert |-> 0]

\* C20: while monitoring is stopped no detection is performed and the
\* statistics counters do not grow: every step taken in a state that is
\* not monitoring either starts monitoring again, or performs no detection
\* and leaves stats as it is (or zeroed by a reset statistics click).  The
\* steps include the callbacks of setInterval handles that were not
\* cleared, the pending call of startMonitoringLoop and frameUpdate.
C20_StoppedMeansNoDetection ==
    [][ ~app.isMonitoring =>
            \/ app'.isMonitoring
            \/ /\ ~app'.last.detected
               /\ app'.stats \in {app.stats, NoStats} ]_vars

\* C20 witness: monitoring was started twice and then stopped after one
\* detection; the callback of the interval that was not cleared ran and
\* detected nothing.
C20_Witness ==
    /\ variant = "v2"
    /\ ~app.isMonitoring
    /\ app.intervals # {}
    /\ app.last.op = "intervalCallback"
    /\ app.stats.total = 1

----------------------------------------------------------------------------
(* The settings specification: updateSettings and analyzeFrame(frame,      *)
(* settings) with partial settings objects, on an engine with or without   *)
(* a reference.                                                             *)

\* partial settings objects: empty, one field, two fields, a field set to
\* the value it already has by default
SettingsPartials ==
    SettingsArgs \cup
    { [detectionThreshold |-> 70, minContourArea |-> 500],
      [positionSensitivity |-> 20] }

NextSettings ==
    \/ \E part \in SettingsPartials : UpdateSettings(part) /\ UNCHANGED app
    \/ \E frame \in AppFrames, part \in SettingsPartials :
          \E rnd \in DrawsFor(frame, part) :
             AnalyzeFrame(frame, part, rnd) /\ UNCHANGED app
    \/ \E image \in Images : SetReferenceImage(image) /\ UNCHANGED app

SpecSettings == Init /\ [][NextSettings]_vars

\* new is old with the fields of part overwritten and no other field touched
ShallowMerge(old, part, new) ==
    /\ DOMAIN new = (DOMAIN old) \cup (DOMAIN part)
    /\ \A k \in DOMAIN part : new[k] = part[k]
    /\ \A k \in (DOMAIN old) \ (DOMAIN part) : new[k] = old[k]

----------------------------------------------------------------------------
\* C22: once both rectangles are stored in the drawing-mode app, the engine
\* holds them as its reference: setReferenceAreas(boxRect, keyPointRect) has
\* been called, so the engine is initialized with the app's rectangles.
C22_ReferenceFinalizedInEngine ==
    (variant = "v2" /\ app.boxRect # NULL /\ app.keyPointRect # NULL) =>
        /\ isInitialized
        /\ boxRect = app.boxRect
        /\ keyPointRect = app.keyPointRect

----------------------------------------------------------------------------
(* The reference-areas specification: setReferenceAreas called again and   *)
(* again with different rectangles, with and without a key-point           *)
(* rectangle and an image, between clearReference and setReferenceImage.   *)

AreaBoxRects == { Rect(20, 20, 300, 300), Rect(0, 0, 640, 480) }

\* key-point rectangles; the second has odd sides, its centre lies on half
\* pixels
AreaKeyPointRects == { Rect(50, 50, 200, 200), Rect(100, 80, 25, 35) }

NextAreas ==
    \/ \E b \in AreaBoxRects, k \in AreaKeyPointRects \cup {NULL},
          image \in Images \cup {NULL} :
          SetReferenceAreas(b, k, image) /\ UNCHANGED app
    \/ \E image \in Images : SetReferenceImage(image) /\ UNCHANGED app
    \/ ClearReference /\ UNCHANGED app
    \/ \E frame \in AppFrames :
          \E rnd \in DrawsFor(frame, << >>) :
             AnalyzeFrame(frame, << >>, rnd) /\ UNCHANGED app

SpecAreas == Init /\ [][NextAreas]_vars

\* C23: after a call of setReferenceAreas the stored reference features are
\* those of the rectangles of that call and of nothing earlier: they name
\* the boxRect and keyPointRect just passed, with centerX = keyPointRect.x +
\* width/2, centerY = keyPointRect.y + height/2 (here in half pixels),
\* area = width * height and rotation 0.
C23_FeaturesOfThisCall ==
    (call.op = "setReferenceAreas" /\ referenceFeatures # NULL) =>
        /\ keyPointRect # NULL
        /\ referenceFeatures.boxRect = boxRect
        /\ referenceFeatures.keyPointRect = keyPointRect
        /\ referenceFeatures.centerX = 2 * keyPointRect.x + keyPointRect.width
        /\ referenceFeatures.centerY = 2 * keyPointRect.y + keyPointRect.height
        /\ referenceFeatures.area = keyPointRect.width * keyPointRect.height
        /\ referenceFeatures.rotation = 0

----------------------------------------------------------------------------
(* The pixel specification: extractROI, convertToGrayscale and the start   *)
(* of analyzeFrame on pixel buffers.  An ImageData is a record of width,   *)
(* height and data (RGBA bytes, row by row); the buffers live in a heap, a *)
(* sequence indexed by buffer identity, so that a write to a buffer shows  *)
(* in every holder of it.  Buffer 1 is the source frame's imageData.       *)

\* a blue weight of 0.1 for 0.114
GrayOutcomesDarkened(r, g, b) ==
    LET n == 299 * r + 587 * g + 100 * b
        q == n \div 1000
    IN  IF n % 1000 > 500 THEN {q + 1}
        ELSE IF n % 1000 < 500 THEN {q}
        ELSE {q, q + 1}

\* what a Uint8ClampedArray stores for r*0.299 + g*0.587 + b*0.114: the
\* nearest integer; where the exact sum lies half way, the double sum falls
\* on either side of it, so both neighbours are outcomes
GrayOutcomes(r, g, b) ==
    LET n == 299 * r + 587 * g + 114 * b
        q == n \div 1000
    IN  IF n % 1000 > 500 THEN {q + 1}
        ELSE IF n % 1000 < 500 THEN {q}
        ELSE {q, q + 1}

\* the gray values the loop may store, one per pixel
GrayChoices(img) ==
    LET n == img.width * img.height
        of(i) == GrayOutcomes(img.data[4 * i - 3], img.data[4 * i - 2],
                              img.data[4 * i - 1])
    IN  { gray \in [1..n -> UNION {of(i) : i \in 1..n}] :
            \A i \in 1..n : gray[i] \in of(i) }

\* data[i] = data[i+1] = data[i+2] = gray; alpha remains the same
GrayData(data, gray) ==
    [i \in 1..Len(data) |->
        IF i % 4 = 0 THEN data[i] ELSE gray[(i - 1) \div 4 + 1]]

\* convertToGrayscale writing into the buffer it was given
ConvertToGrayscaleInPlace(heap, src, gray) ==
    [heap |-> [heap EXCEPT ![src].data = GrayData(@, gray)], out |-> src]

\* convertToGrayscale: new Uint8ClampedArray(imageData.data) is a copy, the
\* loop writes the copy, new ImageData(data, width, height) is returned
ConvertToGrayscale(heap, src, gray) ==
    [heap |-> Append(heap, [heap[src] EXCEPT !.data = GrayData(@, gray)]),
     out |-> Len(heap) + 1]

\* drawImage of the region r of img, read back by getImageData
Crop(img, r) ==
    [width |-> r.width, height |-> r.height,
     data |-> [i \in 1..(4 * r.width * r.height) |->
                  LET p == (i - 1) \div 4
                      x == r.x + (p % r.width)
                      y == r.y + (p \div r.width)
                  IN  img.data[4 * (y * img.width + x) + ((i - 1) % 4) + 1]]]

\* extractROI on buffers: putImageData copies the frame onto a temporary
\* canvas, the region is drawn from there and read back as a new buffer;
\* out = 0 is null (getImageData throws on an empty region)
ExtractROIPixels(heap, src, rect) ==
    LET img == heap[src]
        r == ScaledRect([width |-> img.width, height |-> img.height,
                         imageWidth |-> img.width,
                         imageHeight |-> img.height], rect)
        canvas == Append(heap, img)
    IN  IF r.width <= 0 \/ r.height <= 0
        THEN [heap |-> canvas, out |-> 0]
        ELSE [heap |-> Append(canvas, Crop(img, r)), out |-> Len(heap) + 2]

\* byte levels of the model's pixels; (0, 80, 110) sums to 59.5
Levels == {0, 80, 110, 255}

\* frames of one pixel in every combination of levels and two alphas, a
\* frame of 2 x 1 and a frame of 2 x 2 pixels
PixelImages ==
    { [width |-> 1, height |-> 1, data |-> <<r, g, b, a>>] :
        r \in Levels, g \in Levels, b \in Levels, a \in {128, 255} }
    \cup
    { [width |-> 2, height |-> 1,
       data |-> <<255, 0, 0, 255,  0, 80, 110, 128>>],
      [width |-> 2, height |-> 2,
       data |-> <<10, 20, 30, 255,  200, 100, 50, 255,
                  0, 80, 110, 7,    255, 255, 255, 0>>] }

\* rectangles given to extractROI on these frames
PixelRects == { Rect(0, 0, 1, 1), Rect(1, 0, 1, 2), Rect(0, 0, 2, 2),
                Rect(1, 1, 0, 1) }

PixelIdle == UNCHANGED <<variant, engineVars, now, appended, app>>

\* convertToGrayscale(imageData) on a frame's imageData
GrayscaleCall(img) ==
    /\ \E gray \in GrayChoices(img) :
          LET r == ConvertToGrayscale(<<img>>, 1, gray)
          IN  /\ call' = [op |-> "convertToGrayscale", input |-> img,
                          heap |-> r.heap, pass1 |-> r.out, pass2 |-> 0]
              /\ ret' = r.heap[r.out]
    /\ PixelIdle

\* convertToGrayscale on what the first pass returned
GrayscaleAgain ==
    /\ call.op = "convertToGrayscale"
    /\ call.pass2 = 0
    /\ \E gray \in GrayChoices(call.heap[call.pass1]) :
          LET r == ConvertToGrayscale(call.heap, call.pass1, gray)
          IN  /\ call' = [call EXCEPT !.heap = r.heap, !.pass2 = r.out]
              /\ ret' = r.heap[r.out]
    /\ PixelIdle

\* extractROI(frameData, rect)
ExtractPixelsCall(img, rect) ==
    /\ LET r == ExtractROIPixels(<<img>>, 1, rect)
       IN  /\ call' = [op |-> "extractROI", input |-> img, rect |-> rect,
                       heap |-> r.heap, out |-> r.out]
           /\ ret' = IF r.out = 0 THEN NULL ELSE r.heap[r.out]
    /\ PixelIdle

\* analyzeFrame as far as it touches pixel buffers that the frame could
\* share: extractROI of the key-point area and convertToGrayscale of the
\* region (v2, analyzeROI), convertToGrayscale of the frame's imageData
\* (v1, detectBoxes); the later stages read the gray copy and allocate
\* their outputs
AnalyzePixelsCall(img, rect) ==
    /\ IF variant = "v2"
       THEN LET roi == ExtractROIPixels(<<img>>, 1, rect)
            IN  IF roi.out = 0
                THEN call' = [op |-> "analyzeFrame", input |-> img,
                              heap |-> roi.heap]
                ELSE \E gray \in GrayChoices(roi.heap[roi.out]) :
                        call' = [op |-> "analyzeFrame", input |-> img,
                                 heap |-> ConvertToGrayscale(roi.heap, roi.out,
                                                             gray).heap]
       ELSE \E gray \in GrayChoices(img) :
               call' = [op |-> "analyzeFrame", input |-> img,
                        heap |-> ConvertToGrayscale(<<img>>, 1, gray).heap]
    /\ ret' = NULL
    /\ PixelIdle

NextPixels ==
    \/ \E img \in PixelImages : GrayscaleCall(img)
    \/ GrayscaleAgain
    \/ \E img \in PixelImages, rect \in PixelRects : ExtractPixelsCall(img, rect)
    \/ \E img \in PixelImages, rect \in PixelRects : AnalyzePixelsCall(img, rect)

SpecPixels == Init /\ [][NextPixels]_vars

\* C24: after extractROI, convertToGrayscale (once or twice) and
\* analyzeFrame the source frame's imageData, buffer 1, is byte for byte and
\* in width and height what was passed in.
C24_SourceFrameUnchanged ==
    call.op \in {"extractROI", "convertToGrayscale", "analyzeFrame"} =>
        call.heap[1] = call.input

\* C24 witness: the 2 x 2 frame was cropped to its right column and the
\* frame still holds its four pixels.
C24_Witness ==
    /\ call.op = "extractROI"
    /\ call.input.width = 2 /\ call.input.height = 2
    /\ call.out = 3
    /\ call.heap[3] = [width |-> 1, height |-> 2,
                       data |-> <<200, 100, 50, 255,  255, 255, 255, 0>>]
    /\ call.heap[1].data = <<10, 20, 30, 255,  200, 100, 50, 255,
                             0, 80, 110, 7,    255, 255, 255, 0>>

\* C27: after the first pass of convertToGrayscale every pixel has
\* R = G = B and the alpha of the input, and a second pass returns a buffer
\* equal to that of the first, byte for byte.
C27_GrayscaleIdempotent ==
    call.op = "convertToGrayscale" =>
        LET once == call.heap[call.pass1]
        IN  /\ once.width = call.input.width
            /\ once.height = call.input.height
            /\ \A i \in 1..(once.width * once.height) :
                  /\ once.data[4 * i - 3] = once.data[4 * i - 2]
                  /\ once.data[4 * i - 2] = once.data[4 * i - 1]
                  /\ once.data[4 * i] = call.input.data[4 * i]
            /\ call.pass2 # 0 => call.heap[call.pass2] = once

\* C27 witness: the 2 x 1 frame went through both passes; its second pixel,
\* whose luma lies half way, was stored as 60 with its alpha of 128.
C27_Witness ==
    /\ call.op = "convertToGrayscale"
    /\ call.pass2 # 0
    /\ call.input.data = <<255, 0, 0, 255,  0, 80, 110, 128>>
    /\ call.heap[call.pass2].data = <<76, 76, 76, 255,  60, 60, 60, 128>>

----------------------------------------------------------------------------
(* The contour specification: findContours, one step per iteration of its  *)
(* loops, and traceContour.  An edge image is a record of width, height    *)
(* and red, the red byte data[idx * 4] of every pixel idx = y * width + x. *)

\* data[idx * 4] > 128
StrongEdge == 128

\* contour.length > 20
MinContourLength == 20

\* contour.length < 1000
MaxContourPoints == 1000

Directions ==
    << <<-1, -1>>, <<-1, 0>>, <<-1, 1>>, <<0, -1>>,
       <<0, 1>>, <<1, -1>>, <<1, 0>>, <<1, 1>> >>

\* one row of pixels, those of first..last at 255 and the others at 128
EdgeRow(width, first, last) ==
    [width |-> width, height |-> 1,
     red |-> [idx \in 0..(width - 1) |->
                 IF idx >= first /\ idx <= last THEN 255 ELSE 128]]

\* a filled block of cols x rows pixels at 129 inside a border at 0
EdgeBlock(cols, rows) ==
    [width |-> cols + 2, height |-> rows + 2,
     red |-> [idx \in 0..((cols + 2) * (rows + 2) - 1) |->
                 LET x == idx % (cols + 2)
                     y == idx \div (cols + 2)
                 IN  IF x >= 1 /\ x <= cols /\ y >= 1 /\ y <= rows
                     THEN 129 ELSE 0]]

\* regions of 19, 20 and 21 points, a block of 20, two regions in one row,
\* and a region of 1030 points
EdgeImages ==
    { EdgeRow(21, 1, 19), EdgeRow(22, 1, 20), EdgeRow(23, 1, 21),
      EdgeBlock(4, 5),
      [width |-> 50, height |-> 1,
       red |-> [idx \in 0..49 |->
                   IF idx <= 21 \/ idx >= 25 THEN 200 ELSE 100]],
      EdgeRow(1030, 0, 1029) }

ContourIdle == UNCHANGED <<variant, engineVars, now, ret, appended, app>>

\* findContours(edgeData): contours = [], visited all false, y = x = 0
FindContoursCall(edgeData) ==
    /\ IF call.op = "findContours" THEN call.pc = "done" ELSE TRUE
    /\ call' = [op |-> "findContours", pc |-> "scan", edgeData |-> edgeData,
                idx |-> 0,
                visited |-> [idx \in 0..(edgeData.width * edgeData.height - 1)
                               |-> FALSE],
                contours |-> << >>,
                traced |-> << >>]
    /\ ContourIdle

\* the iteration of traceContour without visited[idx] = true
TraceIterationUnmarked(t, e) ==
    LET top == t.stack[Len(t.stack)]
        rest == SubSeq(t.stack, 1, Len(t.stack) - 1)
        x == top[1]
        y == top[2]
        idx == y * e.width + x
    IN  IF ~(Len(t.stack) > 0 /\ Len(t.contour) < MaxContourPoints)
        THEN t
        ELSE IF x < 0 \/ x >= e.width \/ y < 0 \/ y >= e.height
                \/ t.visited[idx]
        THEN [t EXCEPT !.stack = rest]
        ELSE IF e.red[idx] > StrongEdge
        THEN [t EXCEPT
                !.contour = Append(@, top),
                !.stack = rest \o [d \in 1..8 |->
                            <<x + Directions[d][1], y + Directions[d][2]>>]]
        ELSE [t EXCEPT !.stack = rest]

\* one iteration of the while loop of traceContour on its locals stack,
\* contour and the shared visited; no change once the loop has ended
TraceIteration(t, e) ==
    LET top == t.stack[Len(t.stack)]
        rest == SubSeq(t.stack, 1, Len(t.stack) - 1)
        x == top[1]
        y == top[2]
        idx == y * e.width + x
    IN  IF ~(Len(t.stack) > 0 /\ Len(t.contour) < MaxContourPoints)
        THEN t
        ELSE IF x < 0 \/ x >= e.width \/ y < 0 \/ y >= e.height
                \/ t.visited[idx]
        THEN [t EXCEPT !.stack = rest]
        ELSE IF e.red[idx] > StrongEdge
        THEN [t EXCEPT
                !.visited = [@ EXCEPT ![idx] = TRUE],
                !.contour = Append(@, top),
                !.stack = rest \o [d \in 1..8 |->
                            <<x + Directions[d][1], y + Directions[d][2]>>]]
        ELSE [t EXCEPT !.stack = rest]

\* 2^k iterations of the loop: the first half, then the second on its result
RECURSIVE TraceIterations(_, _, _)
TraceIterations(t, e, k) ==
    IF k = 0 THEN TraceIteration(t, e)
    ELSE LET half == TraceIterations(t, e, k - 1)
         IN  IF Len(half.stack) >= 0
             THEN TraceIterations(half, e, k - 1)
             ELSE half

\* traceContour(data, width, height, startX, startY, visited): the loop run
\* to its end.  Every iteration pops one entry and at most 1000 points push
\* eight each, so it ends within 8001 < 2^13 iterations.
TraceContour(e, startX, startY, visited) ==
    TraceIterations([stack |-> << <<startX, startY>> >>, contour |-> << >>,
                     visited |-> visited], e, 13)

\* one iteration of the loops over y and x; after the last, return contours.
\* traced records every contour traceContour returned.
ScanStep ==
    /\ call.op = "findContours"
    /\ call.pc = "scan"
    /\ LET e == call.edgeData
           t == TraceContour(e, call.idx % e.width, call.idx \div e.width,
                             call.visited)
       IN  call' =
             IF call.idx >= e.width * e.height
             THEN [call EXCEPT !.pc = "done"]
             ELSE IF ~call.visited[call.idx]
                     /\ e.red[call.idx] > StrongEdge
             THEN [call EXCEPT
                     !.idx = @ + 1,
                     !.visited = t.visited,
                     !.traced = Append(@, t.contour),
                     !.contours = IF Len(t.contour) > MinContourLength
                                  THEN Append(@, t.contour) ELSE @]
             ELSE [call EXCEPT !.idx = @ + 1]
    /\ ContourIdle

NextContours ==
    \/ \E edgeData \in EdgeImages : FindContoursCall(edgeData)
    \/ ScanStep

SpecContours == Init /\ [][NextContours]_vars

\* two points are neighbours in one of the eight directions
Touch(p, q) ==
    /\ p # q
    /\ p[1] - q[1] \in {-1, 0, 1}
    /\ p[2] - q[2] \in {-1, 0, 1}

\* C25: when findContours returns, every traced region of at least 20
\* points is among the contours; only shorter ones were discarded.
C25_KeptFromTwentyPoints ==
    (call.op = "findContours" /\ call.pc = "done") =>
        \A i \in 1..Len(call.traced) :
            Len(call.traced[i]) >= 20 =>
                \E j \in 1..Len(call.contours) :
                    call.contours[j] = call.traced[i]

\* C26: when findContours returns, no contour has more than 1000 points
\* and no two contours belong to one 8-connected region of strong pixels:
\* no point of one contour is a neighbour of a point of another.
C26_OneContourPerRegion ==
    (call.op = "findContours" /\ call.pc = "done") =>
        /\ \A i \in 1..Len(call.contours) :
              Len(call.contours[i]) <= 1000
        /\ \A i, j \in 1..Len(call.contours) :
              i < j =>
                \A a \in 1..Len(call.contours[i]) :
                    \A b \in 1..Len(call.contours[j]) :
                        ~Touch(call.contours[i][a], call.contours[j][b])

\* the numbers the message gives under the phrase tag
Phrases(message, tag) ==
    { message[i][2] : i \in { j \in 1..Len(message) : message[j][1] = tag } }

\* C28: the message of a result of compareWithReference with a reference
\* set names exactly the offending axes: it has the position phrase, with
\* details.positionOffset as its pixels, iff positionOk is false; it has the
\* rotation phrase, with details.rotationOffset as its degrees, iff
\* rotationOk is false (position first when both); it is the fixed
\* in-correct-position string iff both pass; a drift of 50 pixels against a
\* tolerance of 20 gives a message that has "50px".
C28_MessageNamesOffendingAxes ==
    (Compared /\ referenceFeatures # NULL) =>
        LET d == ret.details
            failing == (IF d.positionOk THEN 0 ELSE 1)
                       + (IF d.rotationOk THEN 0 ELSE 1)
        IN  /\ Phrases(ret.message, "positionShiftPx") =
                  (IF d.positionOk THEN {} ELSE {d.positionOffset})
            /\ Phrases(ret.message, "tiltDeg") =
                  (IF d.rotationOk THEN {} ELSE {d.rotationOffset})
            /\ (ret.message = <<Msg("inCorrectPosition", 0)>>)
                  <=> (d.positionOk /\ d.rotationOk)
            /\ failing > 0 => Len(ret.message) = failing
            /\ failing = 2 => ret.message[1][1] = "positionShiftPx"
            /\ (BoxObserved /\ call.observed.x = 300 /\ call.observed.y = 200
                /\ settings.positionSensitivity = 20)
                  => 50 \in Phrases(ret.message, "positionShiftPx")

\* C29: whatever the order of starts, stops and timer callbacks, at most
\* one periodic trigger is active: at most one setInterval handle that was
\* not cleared (drawing-mode app), at most one pending call of
\* startMonitoringLoop (legacy app), and no handle left once monitoring
\* has stopped.
C29_SingleMonitoringLoop ==
    /\ Cardinality(app.intervals) <= 1
    /\ app.loops <= 1
    /\ ~app.isMonitoring => app.intervals = {}

\* C30: in every reachable state of the drawing-mode app, isMonitoring
\* implies that both boxRect and keyPointRect are stored.
C30_MonitoringHasBothRects ==
    (variant = "v2" /\ app.isMonitoring) =>
        /\ app.boxRect # NULL
        /\ app.keyPointRect # NULL

\* C31: in every reachable state of the drawing-mode app, currentStep =
\* 'ready-monitor' implies that boxRect and keyPointRect are stored and
\* hasReferenceImage is true.
C31_ReadyMonitorHasReference ==
    (variant = "v2" /\ app.currentStep = "ready-monitor") =>
        /\ app.boxRect # NULL
        /\ app.keyPointRect # NULL
        /\ app.hasReferenceImage

\* C32: in every reachable state of the app stats.total = stats.normal +
\* stats.alert and the three are non-negative; every handled detection
\* grows total by exactly one; handleResetStats sets the three to 0.
C32_StatsAddUp ==
    [][ /\ app.stats.total = app.stats.normal + app.stats.alert
        /\ app'.stats.total = app'.stats.normal + app'.stats.alert
        /\ app'.stats.total >= 0
        /\ app'.stats.normal >= 0
        /\ app'.stats.alert >= 0
        /\ app'.last.detected =>
              /\ app'.stats.total = app.stats.total + 1
              /\ app'.stats.normal + app'.stats.alert
                    = app.stats.normal + app.stats.alert + 1
              /\ app'.stats.normal >= app.stats.normal
              /\ app'.stats.alert >= app.stats.alert
        /\ app'.last.op = "handleResetStats" =>
              app'.stats = [total |-> 0, normal |-> 0, alert |-> 0] ]_vars

\* C32 witness: a passing and an alerting detection were handled: total 2,
\* normal 1, alert 1.
C32_Witness ==
    /\ app.last.op # "init"
    /\ app.last.detected
    /\ app.stats = [total |-> 2, normal |-> 1, alert |-> 1]

\* C33: a call of setReferenceAreas that fails (keyPointRect is null, so
\* that no features can be derived) leaves the engine as it was: boxRect,
\* keyPointRect, referenceImage, referenceFeatures and isInitialized keep
\* their values.  A call that ends with a null keyPointRect is a failed one.
C33_FailedCallChangesNothing ==
    [][ (call'.op = "setReferenceAreas" /\ keyPointRect' = NULL) =>
            UNCHANGED <<boxRect, keyPointRect, referenceImage,
                        referenceFeatures, isInitialized>> ]_vars

\* the points of a contour
PointsOf(contour) == { contour[i] : i \in 1..Len(contour) }

RECURSIVE TotalLength(_)
TotalLength(contours) ==
    IF contours = << >> THEN 0
    ELSE Len(Head(contours)) + TotalLength(Tail(contours))

\* C34: the contours findContours has collected are pairwise disjoint and
\* without repeated points (as many distinct points as entries in all of
\* them), and every point lies inside the image on a pixel whose red value
\* is above 128.
C34_ContoursDisjointAndStrong ==
    call.op = "findContours" =>
        LET e == call.edgeData
            all == UNION { PointsOf(call.contours[j]) :
                              j \in 1..Len(call.contours) }
        IN  /\ Cardinality(all) = TotalLength(call.contours)
            /\ \A p \in all :
                  /\ p[1] >= 0 /\ p[1] < e.width
                  /\ p[2] >= 0 /\ p[2] < e.height
                  /\ e.red[p[2] * e.width + p[1]] > 128

\* C34 witness: findContours returned two contours, of 22 and 25 points,
\* for the row of 50 pixels with a weak gap.
C34_Witness ==
    /\ call.op = "findContours"
    /\ call.pc = "done"
    /\ call.edgeData.width = 50
    /\ Len(call.contours) = 2
    /\ Len(call.contours[1]) = 22
    /\ Len(call.contours[2]) = 25

----------------------------------------------------------------------------
(* The retry specification: Utils.retry(fn, maxRetries, baseDelay), one    *)
(* step per settled call of fn and per elapsed sleep.  What fn does is the *)
(* caller's: every call of it fulfils with a value or rejects with an       *)
(* error object or with undefined.                                          *)

\* the largest maxRetries passed
MaxRetryArg == 3

RetryCounts == 0..MaxRetryArg

RetryDelays == {1000, 250}

\* fn() fulfilled with a value, rejected with an Error, or rejected with
\* undefined (reject() without a reason)
FnOutcomes ==
    { [ok |-> TRUE, value |-> "value"],
      [ok |-> FALSE, value |-> "error1"],
      [ok |-> FALSE, value |-> "error2"],
      [ok |-> FALSE, value |-> "undefined"] }

\* Math.pow(2, n) for n >= 0
RECURSIVE Pow2(_)
Pow2(n) == IF n = 0 THEN 1 ELSE 2 * Pow2(n - 1)

RetryIdle == UNCHANGED <<variant, engineVars, now, ret, appended, app>>

\* retry(fn, maxRetries, baseDelay) up to its first await; with
\* maxRetries < 1 the loop body never runs and the promise is fulfilled
\* with undefined
RetryCall(maxRetries, baseDelay) ==
    /\ IF call.op = "retry" THEN call.pc \in {"fulfilled", "rejected"}
       ELSE TRUE
    /\ call' = [op |-> "retry", maxRetries |-> maxRetries,
                baseDelay |-> baseDelay, attempt |-> 1,
                pc |-> IF 1 <= maxRetries THEN "fn" ELSE "fulfilled",
                outcomes |-> << >>, waits |-> << >>,
                result |-> "undefined"]
    /\ RetryIdle

\* await fn() settles with o: return on success; in the catch, throw on the
\* last attempt, else compute the delay, log error.message (a TypeError
\* when error is undefined, which leaves the async function) and sleep
RetryAttempt(o) ==
    /\ call.op = "retry"
    /\ call.pc = "fn"
    /\ LET c == [call EXCEPT !.outcomes = Append(@, o)]
       IN  call' =
             IF o.ok
             THEN [c EXCEPT !.pc = "fulfilled", !.result = o.value]
             ELSE IF call.attempt = call.maxRetries
             THEN [c EXCEPT !.pc = "rejected", !.result = o.value]
             ELSE IF o.value = "undefined"
             THEN [c EXCEPT !.pc = "rejected", !.result = "TypeError"]
             ELSE [c EXCEPT
                     !.pc = "sleep",
                     !.waits = Append(@, call.baseDelay
                                            * Pow2(call.attempt - 1))]
    /\ RetryIdle

\* the timeout of sleep(delay) fires: attempt++ and the next iteration
RetrySleepDone ==
    /\ call.op = "retry"
    /\ call.pc = "sleep"
    /\ call' = [call EXCEPT !.attempt = @ + 1, !.pc = "fn"]
    /\ RetryIdle

NextRetry ==
    \/ \E maxRetries \in RetryCounts, baseDelay \in RetryDelays :
          RetryCall(maxRetries, baseDelay)
    \/ \E o \in FnOutcomes : RetryAttempt(o)
    \/ RetrySleepDone

SpecRetry == Init /\ [][NextRetry]_vars

\* C35: retry calls fn at most maxRetries times; it is fulfilled only with
\* the value of a successful call, which is the first success and the last
\* call; it waits baseDelay * 2^(k-1) after the k-th failed call before the
\* next one; it is rejected only when all maxRetries calls failed, with the
\* error of the last one, and then it is rejected.
C35_RetryBackoff ==
    call.op = "retry" =>
        LET n == Len(call.outcomes)
            failed == { k \in 1..n : ~call.outcomes[k].ok }
        IN  /\ n <= call.maxRetries
            /\ \A k \in 1..(n - 1) : k \in failed
            /\ call.pc = "fulfilled" =>
                  /\ n >= 1
                  /\ call.outcomes[n].ok
                  /\ call.result = call.outcomes[n].value
            /\ call.pc = "rejected" =>
                  /\ n = call.maxRetries
                  /\ n \in failed
                  /\ call.result = call.outcomes[n].value
            /\ (n = call.maxRetries /\ failed = 1..n) => call.pc = "rejected"
            /\ Len(call.waits) =
                  (IF call.pc \in {"fn", "sleep"} THEN n ELSE Max(n - 1, 0))
            /\ \A k \in 1..Len(call.waits) :
                  call.waits[k] = call.baseDelay * Pow2(k - 1)

----------------------------------------------------------------------------
(* The event specification: on, off and emit of the three managers, which  *)
(* share one implementation.  eventListeners maps the events that have an  *)
(* array to that array; emit is one step per index of its forEach, which   *)
(* walks the live array up to the length it had at the start and skips an  *)
(* index the array no longer has.  A listener returns, throws, or removes  *)
(* itself with off before it returns.                                      *)

Events == {"error", "referenceSet"}

Listeners == {"returns", "throws", "offSelf"}

NoListeners == [event \in Events |-> << >>]

\* indexOf(callback): the first index holding it, 0 for none
RECURSIVE IndexOf(_, _)
IndexOf(array, callback) ==
    IF array = << >> THEN 0
    ELSE IF Head(array) = callback THEN 1
    ELSE LET rest == IndexOf(Tail(array), callback)
         IN  IF rest = 0 THEN 0 ELSE rest + 1

\* splice(index, 1) when indexOf found the callback
Removed(array, callback) ==
    LET index == IndexOf(array, callback)
    IN  IF index = 0 THEN array
        ELSE SubSeq(array, 1, index - 1) \o SubSeq(array, index + 1, Len(array))

EventIdle == UNCHANGED <<variant, engineVars, now, ret, appended, app>>

\* the emitter as the last call left it: no array before the first on
EventListeners ==
    IF call.op \in {"on", "off", "emit"} THEN call.eventListeners
    ELSE NoListeners

EventKeys ==
    IF call.op \in {"on", "off", "emit"} THEN call.keys ELSE {}

\* no emit is under way
EmitterAtRest ==
    IF call.op = "emit" THEN call.pc = "returned" ELSE TRUE

\* on(event, callback) of a callback not yet registered for the event
On(event, callback) ==
    /\ EmitterAtRest
    /\ IndexOf(EventListeners[event], callback) = 0
    /\ call' = [op |-> "on", keys |-> EventKeys \cup {event},
                eventListeners |->
                    [EventListeners EXCEPT ![event] = Append(@, callback)]]
    /\ EventIdle

\* off(event, callback)
Off(event, callback) ==
    /\ EmitterAtRest
    /\ call' = [op |-> "off", keys |-> EventKeys,
                eventListeners |->
                    IF event \in EventKeys
                    THEN [EventListeners EXCEPT
                            ![event] = Removed(@, callback)]
                    ELSE EventListeners]
    /\ EventIdle

\* emit(event, data): return without an array, else start forEach
Emit(event) ==
    /\ EmitterAtRest
    /\ call' = [op |-> "emit", keys |-> EventKeys,
                eventListeners |-> EventListeners,
                event |-> event,
                pc |-> IF event \in EventKeys THEN "forEach" ELSE "returned",
                k |-> 0, len |-> Len(EventListeners[event]),
                atStart |-> EventListeners[event],
                invoked |-> << >>, propagated |-> FALSE]
    /\ EventIdle

\* one index of forEach: past len the loop ends; an index the array has
\* lost is skipped; else the callback runs inside try / catch
EmitStep ==
    /\ call.op = "emit"
    /\ call.pc = "forEach"
    /\ LET array == call.eventListeners[call.event]
           callback == array[call.k + 1]
       IN  call' =
             IF call.k >= call.len
             THEN [call EXCEPT !.pc = "returned"]
             ELSE IF call.k >= Len(array)
             THEN [call EXCEPT !.k = @ + 1]
             ELSE [call EXCEPT
                     !.k = @ + 1,
                     !.invoked = Append(@, callback),
                     !.eventListeners[call.event] =
                         IF callback = "offSelf"
                         THEN Removed(@, callback) ELSE @]
    /\ EventIdle

NextEvents ==
    \/ \E event \in Events, callback \in Listeners : On(event, callback)
    \/ \E event \in Events, callback \in Listeners : Off(event, callback)
    \/ \E event \in Events : Emit(event)
    \/ EmitStep

SpecEvents == Init /\ [][NextEvents]_vars

\* C36: when emit returns it has invoked, in the order of registration and
\* each once, listeners registered for that event, among them every one
\* that off has not removed, whether or not an earlier listener threw; and
\* no exception reached the caller.
C36_EveryListenerInvoked ==
    (call.op = "emit" /\ call.pc = "returned") =>
        /\ ~call.propagated
        /\ \A i \in 1..Len(call.invoked) :
              IndexOf(call.atStart, call.invoked[i]) > 0
        /\ \A i, j \in 1..Len(call.invoked) :
              i < j => IndexOf(call.atStart, call.invoked[i])
                          < IndexOf(call.atStart, call.invoked[j])
        /\ \A i \in 1..Len(call.atStart) :
              IndexOf(call.eventListeners[call.event], call.atStart[i]) > 0
                 => IndexOf(call.invoked, call.atStart[i]) > 0

\* ---------------------------------------------------------------------
\* CameraManager, fixed version (src/js/camera-fixed.js): start with real
\* camera attempts and the fallback to the simulated camera
\* ---------------------------------------------------------------------

MaxCameraStarts == 2
NumConstraints == 4

\* what getUserMedia can do with one constraint set: reject, or resolve to
\* a stream without a video track, with an ended one, or with a live one
GetUserMediaOutcomes == {"rejected", "noTrack", "ended", "live"}

\* what setupVideo can do: resolve, reject after 8000 ms, reject with play()
SetupVideoOutcomes == {"resolved", "timeout", "playFailed"}

\* what waitForVideoReady can do in startSimulationMode
SimulationOutcomes == {"ready", "timeout"}

NoStream == [source |-> "null", constraint |-> 0]

\* the manager as the constructor leaves it
CameraInit ==
    [op |-> "camera", pc |-> "constructed", starts |-> 0, i |-> 0,
     stream |-> NoStream, isActive |-> FALSE, isSimulating |-> FALSE,
     lastError |-> "undefined", error |-> "none", simulationTried |-> FALSE,
     attempts |-> << >>, obtained |-> << >>]

CameraIdle == UNCHANGED <<variant, engineVars, now, ret, appended, app>>

Camera == IF call.op = "camera" THEN call ELSE CameraInit

\* no start is under way
CameraAtRest == Camera.pc \in {"constructed", "resolved", "rejected", "stopped"}

\* the assignments of a successful activation by stream s
ActivatedRealOnly(c, s) ==
    [c EXCEPT !.stream = s, !.isActive = TRUE, !.isSimulating = FALSE,
              !.pc = "resolved"]

Activated(c, s) ==
    [c EXCEPT !.stream = s, !.isActive = TRUE,
              !.isSimulating = (s.source = "canvas"),
              !.pc = "resolved"]

\* the loop of tryRealCamera goes on to the next constraint set, or ends
\* with a throw that start catches to call startSimulationMode
NextAttempt(c) ==
    IF c.i < NumConstraints
    THEN [c EXCEPT !.i = @ + 1, !.pc = "getUserMedia"]
    ELSE [c EXCEPT !.pc = "simulation", !.simulationTried = TRUE]

\* start(videoElement) up to the first getUserMedia; without the camera
\* API tryRealCamera throws at once
Start(api) ==
    /\ CameraAtRest
    /\ Camera.starts < MaxCameraStarts
    /\ call' = [Camera EXCEPT
                  !.starts = @ + 1,
                  !.i = IF api THEN 1 ELSE 0,
                  !.pc = IF api THEN "getUserMedia" ELSE "simulation",
                  !.simulationTried = ~api,
                  !.lastError = "undefined", !.error = "none",
                  !.attempts = << >>, !.obtained = << >>]
    /\ CameraIdle

\* one getUserMedia of tryRealCamera and the test of its first video track
GetUserMedia(o) ==
    /\ Camera.pc = "getUserMedia"
    /\ call' =
         IF o = "rejected"
         THEN NextAttempt([call EXCEPT !.lastError = "getUserMedia",
                                       !.attempts = Append(@, o)])
         ELSE IF o = "live"
         THEN [call EXCEPT
                 !.attempts = Append(@, o),
                 !.obtained = Append(@, [constraint |-> call.i,
                                         stopped |-> FALSE]),
                 !.pc = "setupVideo"]
         ELSE NextAttempt([call EXCEPT
                 !.attempts = Append(@, o),
                 !.obtained = Append(@, [constraint |-> call.i,
                                         stopped |-> TRUE])])
    /\ CameraIdle

\* await setupVideo(stream) and what follows it in tryRealCamera
SetupVideo(o) ==
    /\ Camera.pc = "setupVideo"
    /\ call' =
         IF o = "resolved"
         THEN Activated([call EXCEPT !.attempts[call.i] = "activated"],
                        [source |-> "camera", constraint |-> call.i])
         ELSE NextAttempt([call EXCEPT !.lastError = o,
                                       !.attempts[call.i] = o])
    /\ CameraIdle

\* startSimulationMode and the catch of start around it
StartSimulationMode(o) ==
    /\ Camera.pc = "simulation"
    /\ call' =
         IF o = "ready"
         THEN Activated(call, [source |-> "canvas", constraint |-> 0])
         ELSE [call EXCEPT !.pc = "rejected", !.error = "simulation"]
    /\ CameraIdle

\* stop()
Stop ==
    /\ CameraAtRest
    /\ Camera.pc # "constructed"
    /\ call' = [call EXCEPT !.pc = "stopped", !.stream = NoStream,
                            !.isActive = FALSE, !.isSimulating = FALSE]
    /\ CameraIdle

NextCamera ==
    \/ \E api \in BOOLEAN : Start(api)
    \/ \E o \in GetUserMediaOutcomes : GetUserMedia(o)
    \/ \E o \in SetupVideoOutcomes : SetupVideo(o)
    \/ \E o \in SimulationOutcomes : StartSimulationMode(o)
    \/ Stop

SpecCamera == Init /\ [][NextCamera]_vars

\* the real attempts made so far that gave a stream with a live video track
LiveAttempts ==
    {j \in 1..Len(call.attempts) :
        call.attempts[j] \in {"live", "activated", "timeout", "playFailed"}}

\* ... and those whose video setup succeeded as well
ActivatedAttempts ==
    {j \in 1..Len(call.attempts) : call.attempts[j] = "activated"}

StartSettled == call.op = "camera" /\ call.pc \in {"resolved", "rejected"}

\* what C37 says apart from the choice of the stream: simulation only
\* after every real attempt failed, rejection only by the simulation, and
\* the flags after a successful start
FallbackAndFlags ==
    /\ (call.op = "camera" /\ call.simulationTried) =>
          /\ ActivatedAttempts = {}
          /\ call.i \in {0, NumConstraints}
          /\ Len(call.attempts) = call.i
    /\ (call.op = "camera" /\ call.pc = "rejected") =>
          /\ call.simulationTried
          /\ call.error = "simulation"
    /\ (call.op = "camera" /\ call.pc = "resolved") =>
          /\ call.isActive
          /\ call.isSimulating = (call.stream.source = "canvas")
          /\ call.isSimulating = call.simulationTried

\* C37 as stated: a resolved start has activated the stream of the first
\* constraint set that yielded a live video track, and simulates only when
\* no real attempt did; rejection comes from the simulation only and the
\* flags tell the source.
C37_FirstLiveTrackActivates ==
    /\ FallbackAndFlags
    /\ StartSettled =>
          IF LiveAttempts = {}
          THEN call.simulationTried
          ELSE /\ call.pc = "resolved"
               /\ call.stream.source = "camera"
               /\ \A j \in LiveAttempts : call.stream.constraint <= j

\* C37 amended: start takes the constraint sets in order and activates the
\* stream of the first one that yields a live video track and whose video
\* setup succeeds; when none does it starts the simulated camera, rejects
\* only when the simulation fails too, and after a successful start
\* isActive is true and isSimulating tells the source.
C37_FirstLiveTrackSetUpActivates ==
    /\ FallbackAndFlags
    /\ StartSettled =>
          IF ActivatedAttempts = {}
          THEN call.simulationTried
          ELSE /\ call.pc = "resolved"
               /\ call.stream.source = "camera"
               /\ ActivatedAttempts = {call.stream.constraint}
               /\ Len(call.attempts) = call.stream.constraint

\* a start that activated the third constraint set after a rejected
\* getUserMedia and a video setup that timed out
C37_Witness ==
    /\ call.op = "camera"
    /\ call.pc = "resolved"
    /\ call.attempts = <<"rejected", "timeout", "activated">>
    /\ call.stream = [source |-> "camera", constraint |-> 3]
    /\ call.isActive
    /\ ~call.isSimulating

\* C38: whenever tryRealCamera is at the next getUserMedia, or start has
\* gone on to the simulation or has settled, every stream tryRealCamera
\* obtained in this start other than the active one has its tracks stopped.
C38_NoStreamLeaked ==
    (call.op = "camera" /\ call.pc # "setupVideo") =>
        \A k \in 1..Len(call.obtained) :
            \/ call.obtained[k].stopped
            \/ /\ call.pc = "resolved"
               /\ call.stream = [source |-> "camera",
                                 constraint |-> call.obtained[k].constraint]

\* ---------------------------------------------------------------------
\* BluetoothManager (part_001): connect with the fallback to a simulated
\* connection, disconnect
\* ---------------------------------------------------------------------

MaxConnects == 2

\* error.name of a rejected requestDevice or gatt.connect; the fifth is a
\* TypeError whose message includes 'Invalid Service name'
BluetoothErrors ==
    {"NotFoundError", "SecurityError", "NotSupportedError", "NetworkError",
     "InvalidServiceName"}

\* the promise of showSimulatedDeviceSelector: a device chosen, or rejected
\* by the cancel button, Escape or the timeout
SelectorOutcomes == {"selected", "cancelled"}

BluetoothIdle == UNCHANGED <<variant, engineVars, now, ret, appended, app>>

\* the constructor: simulationMode is true when Web Bluetooth is missing
BluetoothConstructor(isSupported) ==
    /\ call.op = "constructor"
    /\ call' = [op |-> "bluetooth", pc |-> "constructed",
                isSupported |-> isSupported,
                simulationMode |-> ~isSupported,
                isConnected |-> FALSE, device |-> "null",
                server |-> "null", from |-> "none",
                connects |-> 0, last |-> "none",
                realFailed |-> FALSE, everRealFailed |-> FALSE,
                simRejected |-> 0]
    /\ BluetoothIdle

BluetoothAtRest ==
    /\ call.op = "bluetooth"
    /\ call.pc \in {"constructed", "resolved", "rejected", "disconnected"}

\* the catch of connect: simulationMode and a simulated connection
ConnectCatch(c) ==
    [c EXCEPT !.simulationMode = TRUE, !.pc = "simulate", !.from = "catch"]

\* the catch of connectReal: the error is thrown on to connect, except
\* the service name error, which calls simulateConnection on the spot
ConnectRealCatch(c, error) ==
    LET failed == [c EXCEPT !.realFailed = TRUE, !.everRealFailed = TRUE]
    IN  IF error = "InvalidServiceName"
        THEN [failed EXCEPT !.pc = "simulate", !.from = "connectReal"]
        ELSE ConnectCatch(failed)

\* connect(options) up to its first await
Connect ==
    /\ BluetoothAtRest
    /\ call.connects < MaxConnects
    /\ LET c == [call EXCEPT !.connects = @ + 1, !.realFailed = FALSE,
                             !.simRejected = 0, !.last = "connecting"]
       IN  call' = IF c.simulationMode \/ ~c.isSupported
                   THEN [c EXCEPT !.pc = "simulate", !.from = "try"]
                   ELSE [c EXCEPT !.pc = "requestDevice"]
    /\ BluetoothIdle

\* connectReal: await navigator.bluetooth.requestDevice
RequestDevice(o) ==
    /\ call.op = "bluetooth"
    /\ call.pc = "requestDevice"
    /\ call' = IF o = "resolved"
               THEN [call EXCEPT !.device = "device", !.pc = "gattConnect"]
               ELSE ConnectRealCatch(call, o)
    /\ BluetoothIdle

\* connectReal: await this.device.gatt.connect() and what follows
GattConnect(o) ==
    /\ call.op = "bluetooth"
    /\ call.pc = "gattConnect"
    /\ call' = IF o = "resolved"
               THEN [call EXCEPT !.server = "connected",
                                 !.isConnected = TRUE,
                                 !.pc = "resolved", !.last = "resolved"]
               ELSE ConnectRealCatch(call, o)
    /\ BluetoothIdle

\* simulateConnection; its rejection inside the try of connect, or passed
\* on by connectReal, reaches the catch of connect, and inside that catch
\* it rejects connect
SimulateConnection(o) ==
    /\ call.op = "bluetooth"
    /\ call.pc = "simulate"
    /\ call' =
         IF o = "selected"
         THEN [call EXCEPT !.isConnected = TRUE,
                           !.pc = "resolved", !.last = "resolved"]
         ELSE IF call.from = "catch"
         THEN [call EXCEPT !.simRejected = @ + 1,
                           !.pc = "rejected", !.last = "rejected"]
         ELSE ConnectCatch([call EXCEPT !.simRejected = @ + 1])
    /\ BluetoothIdle

\* handleDisconnection
HandleDisconnection(c) ==
    [c EXCEPT !.isConnected = FALSE, !.device = "null", !.server = "null",
              !.pc = "disconnected", !.last = "disconnected"]

\* disconnect()
Disconnect ==
    /\ BluetoothAtRest
    /\ call.pc # "constructed"
    /\ call' = HandleDisconnection(call)
    /\ BluetoothIdle

\* the device's gattserverdisconnected event
GattServerDisconnected ==
    /\ BluetoothAtRest
    /\ call.server = "connected"
    /\ call' = HandleDisconnection(call)
    /\ BluetoothIdle

NextBluetooth ==
    \/ \E isSupported \in BOOLEAN : BluetoothConstructor(isSupported)
    \/ Connect
    \/ \E o \in BluetoothErrors \cup {"resolved"} : RequestDevice(o)
    \/ \E o \in BluetoothErrors \cup {"resolved"} : GattConnect(o)
    \/ \E o \in SelectorOutcomes : SimulateConnection(o)
    \/ Disconnect
    \/ GattServerDisconnected

SpecBluetooth == Init /\ [][NextBluetooth]_vars

ConnectSettled == call.op = "bluetooth" /\ call.pc \in {"resolved", "rejected"}

\* C39: once a real connection attempt has failed, every connect that has
\* settled leaves simulationMode true; a rejected connect had its
\* simulated connection rejected; and between connects isConnected is true
\* exactly when the last connect resolved and no disconnection followed.
C39_FallbackToSimulation ==
    /\ (ConnectSettled /\ call.everRealFailed) => call.simulationMode
    /\ (ConnectSettled /\ call.pc = "rejected") => call.simRejected > 0
    /\ (call.op = "bluetooth" /\ BluetoothAtRest) =>
          (call.isConnected <=> call.last = "resolved")

\* the same, with the two paths set aside on which the code differs: the
\* service name error and a connect made while connected
BluetoothAsClaimedElsewhere ==
    /\ (ConnectSettled /\ call.everRealFailed /\ call.from # "connectReal")
          => call.simulationMode
    /\ (ConnectSettled /\ call.pc = "rejected") => call.simRejected > 0
    /\ (call.op = "bluetooth" /\ BluetoothAtRest) =>
          /\ call.last = "resolved" => call.isConnected
          /\ call.last \in {"none", "disconnected"} => ~call.isConnected

====
